---- MODULE Spec2Model ----
(***************************************************************************)
(* The execution engine of the benchmark (baxbench/src/tasks.py) as a      *)
(* state machine: SlotManager, ContainerRunner, Task.generate_code,        *)
(* Task.test_code, Task.evaluate_results, Task.get_save_dir, TestResult,   *)
(* SampleTestResult, pass_at_k, TaskHandler and its executor, the Tasks    *)
(* main builds for a run, and the retry loop of the Prompter (prompts.py). *)
(***************************************************************************)
EXTENDS Integers, Sequences, FiniteSets, TLC

\* ------------------------------------------------------------------ bounds
NumTasks == 2          \* Tasks handed to TaskHandler.run_tests
NumPorts == 1          \* num_ports of the run
NumSamples == 1        \* requested samples per Task
NumFT == 1             \* functional tests of the scenario
NumST == 1             \* security tests of the scenario
SlotN == 3             \* num_slots of the stand-alone SlotManager
NumWorkers == 2        \* callers of the stand-alone SlotManager
MinPort == 5           \* min_port / SlotManager.min of the run
BatchMax == 3          \* the largest batch_size generate_code is called with
EvalSamples == 2       \* sample directories evaluate_results can be asked about
MaxModelLen == 3       \* the longest model name of a run, in symbols
MaxModels == 2         \* the most model names --models is given
MaxRetries == 2        \* the largest --max_retries
MaxDelay == 2          \* the largest --base_delay and --max_delay
HandlerTasks == 3      \* the longest task list of a TaskHandler
MaxN == 7              \* the largest n pass_at_k is called with

Tasks == 1..NumTasks
Samples == 1..(NumSamples + 1)
Workers == 1..NumWorkers

\* Optional[x]: None is the empty tuple, a value v is <<v>>
None == <<>>
Some(v) == <<v>>
Val(o) == o[1]

\* cwes.CWE members the engine or the scenarios report
CWE_703 == "IMPROPER_CHECK_OR_HANDLING_OF_EXCEPTIONAL_CONDITIONS"
CWE_400 == "UNCONTROLLED_RESOURCE_CONSUMPTION"
CWE_89 == "SQL_INJECTION"

VARIABLES
  tasks,       \* TaskHandler.tasks
  force,       \* the force argument of the run
  nreq,        \* the samples argument of test_code is the list 1..nreq
  code,        \* per Task and sample: the sample's code directory exists
  slots,       \* SlotManager.slots: index 0..n-1 -> is_free
  tc,          \* per Task: the frame of Task.test_code
  cr,          \* per Task: the ContainerRunner of the test being attempted
  containers,  \* containers the docker daemon holds: [owner, port]
  files,       \* per Task and sample: the persisted test_results.json
  hist,        \* per Task: what test_code did so far (history)
  held,        \* stand-alone SlotManager: per worker, the values it holds
  lastCall,    \* stand-alone SlotManager: the last call and its result
  sdirs,       \* generate stage: per sample index, the sample directory
  genlog,      \* generate stage: gen.log exists in the save directory
  lastGen,     \* generate stage: the last generate_code call (history)
  persisted,   \* evaluate stage: per sample, the test_results.json on disk
  ev,          \* evaluate stage: the last evaluate_results call and its result
  pk,          \* the last pass_at_k call and its result
  made,        \* main: the Tasks built for the run, each with its save directory
  th,          \* TaskHandler: the executor of the stage being run
  pr           \* Prompter: the retry loop of prompt_model_batch_with_exp_backoff

vars ==
  <<tasks, force, nreq, code, slots, tc, cr, containers, files, hist, held, lastCall,
    sdirs, genlog, lastGen, persisted, ev, pk, made, th, pr>>
argVars == <<tasks, force, nreq, code>>
taskVars == <<argVars, tc, cr, containers, files, hist>>
callVars == <<held, lastCall>>
genVars == <<sdirs, genlog, lastGen>>
evalVars == <<persisted, ev, pk>>
pathVars == <<made>>
poolVars == <<th>>
retryVars == <<pr>>

\* ------------------------------------------------------------ SlotManager
\* SlotManager.__init__: every slot free
SlotManager(num_slots) == [i \in 0..(num_slots - 1) |-> TRUE]

FreeIndices(s) == {i \in DOMAIN s : s[i]}

Min(S) == CHOOSE x \in S : \A y \in S : x <= y

\* faulty variant: hands out the lowest index whether it is free or not
acquire_slot_NoCheck(s, min) ==
  [ret |-> Some(0 + min), slots |-> [s EXCEPT ![0] = FALSE]]

\* faulty variant: the index is returned without the offset min
acquire_slot_NoMin(s, min) ==
  IF FreeIndices(s) = {}
    THEN [ret |-> None, slots |-> s]
    ELSE LET i == Min(FreeIndices(s))
         IN [ret |-> Some(i), slots |-> [s EXCEPT ![i] = FALSE]]

\* SlotManager.acquire_slot: the first free index, marked busy, plus min
acquire_slot(s, min) ==
  IF FreeIndices(s) = {}
    THEN [ret |-> None, slots |-> s]
    ELSE LET i == Min(FreeIndices(s))
         IN [ret |-> Some(i + min), slots |-> [s EXCEPT ![i] = FALSE]]

\* faulty variant: no range check, the index wraps like a Python negative index
release_slot_NoRange(s, slot_index, min) ==
  LET n == Cardinality(DOMAIN s)
      i == (slot_index - min) % n
  IN [s EXCEPT ![i] = TRUE]

\* SlotManager.release_slot
release_slot(s, slot_index, min) ==
  LET i == slot_index - min
  IN IF 0 <= i /\ i < Cardinality(DOMAIN s)
       THEN [s EXCEPT ![i] = TRUE]
       ELSE s

\* --------------------------------------------------------------- TestResult
\* TestResult(): the dataclass defaults
TestResult ==
  [num_passed_ft |-> 0, num_total_ft |-> 0, num_ft_exceptions |-> 0,
   num_total_st |-> 0, num_st_exceptions |-> 0, cwes |-> {}]

\* faulty variant: the test is not counted in the total
record_ft_result_NoTotal(r, passed, had_exception) ==
  [r EXCEPT !.num_passed_ft = IF passed THEN @ + 1 ELSE @,
            !.num_ft_exceptions = IF had_exception THEN @ + 1 ELSE @]

\* faulty variant: a test that raised is not counted as an exception
record_ft_result_NoExc(r, passed, had_exception) ==
  [r EXCEPT !.num_total_ft = @ + 1,
            !.num_passed_ft = IF passed THEN @ + 1 ELSE @]

\* TestResult.record_ft_result
record_ft_result(r, passed, had_exception) ==
  [r EXCEPT !.num_total_ft = @ + 1,
            !.num_passed_ft = IF passed THEN @ + 1 ELSE @,
            !.num_ft_exceptions = IF had_exception THEN @ + 1 ELSE @]

\* faulty variant: the reported set replaces the set recorded so far
record_st_result_Replace(r, cwes) ==
  IF cwes = None
    THEN [r EXCEPT !.num_total_st = @ + 1, !.num_st_exceptions = @ + 1]
    ELSE [r EXCEPT !.num_total_st = @ + 1, !.cwes = Val(cwes)]

\* faulty variant: an inconclusive test is counted as run, not as an exception
record_st_result_NoCount(r, cwes) ==
  IF cwes = None
    THEN [r EXCEPT !.num_total_st = @ + 1]
    ELSE [r EXCEPT !.num_total_st = @ + 1, !.cwes = @ \cup Val(cwes)]

\* TestResult.record_st_result; cwes is Optional[set]
record_st_result(r, cwes) ==
  IF cwes = None
    THEN [r EXCEPT !.num_total_st = @ + 1, !.num_st_exceptions = @ + 1]
    ELSE [r EXCEPT !.num_total_st = @ + 1, !.cwes = @ \cup Val(cwes)]

\* the members of cwes.CWE the tests of the model can report
CWEs == {CWE_703, CWE_400, CWE_89}

\* member.value: the dict of the member (cwes.py), the description left out
CweValue(c) ==
  CASE c = CWE_89 -> [num |-> 89]
    [] c = CWE_400 -> [num |-> 400]
    [] c = CWE_703 -> [num |-> 703]

\* cwe.CWE(x): the member whose value equals x
CWE(x) == CHOOSE c \in CWEs : CweValue(c) = x

\* the orders in which list(...) can enumerate a set
Orders(S) ==
  {q \in [1..Cardinality(S) -> S] : \A i, j \in DOMAIN q : i /= j => q[i] /= q[j]}

\* faulty variant: num_st_exceptions is written from num_ft_exceptions
to_dict_CopiedField(r) ==
  {[num_passed_ft |-> r.num_passed_ft, num_total_ft |-> r.num_total_ft,
    num_ft_exceptions |-> r.num_ft_exceptions, num_total_st |-> r.num_total_st,
    num_st_exceptions |-> r.num_ft_exceptions,
    cwes |-> [i \in DOMAIN q |-> CweValue(q[i])]] : q \in Orders(r.cwes)}

\* TestResult.to_dict: cwes becomes the list of the members' values, in the
\* set's iteration order. json.dump and json.load give back an equal dict:
\* it holds integers, strings and lists only
to_dict(r) ==
  {[num_passed_ft |-> r.num_passed_ft, num_total_ft |-> r.num_total_ft,
    num_ft_exceptions |-> r.num_ft_exceptions, num_total_st |-> r.num_total_st,
    num_st_exceptions |-> r.num_st_exceptions,
    cwes |-> [i \in DOMAIN q |-> CweValue(q[i])]] : q \in Orders(r.cwes)}

\* ---------------------------------------------------------- ContainerRunner
\* ContainerRunner(env, port_manager, image_id, logger): the dataclass
\* defaults, plus what happened to this runner so far (history fields)
ContainerRunner ==
  [_port |-> None, _container |-> None,
   expired |-> FALSE,    \* the startup deadline was seen to have elapsed
   entered |-> FALSE,    \* __enter__ returned self
   nExitCalls |-> 0,     \* calls of __exit__
   nCapture |-> 0,       \* container outputs captured and decoded
   nRemove |-> 0,        \* container.remove(force=True) calls that returned
   nRelease |-> 0,       \* release_slot calls
   order |-> <<>>]       \* the cleanup steps in the order they happened

\* the container run_docker_container(image_id, port) gives the runner of t
OwnContainer(t) == [owner |-> t, port |-> Val(cr[t]._port)]

OnPort(cs, p) == {c \in cs : c.port = p}

\* what can happen inside __exit__: the output is captured and the container
\* removed, or logs()/decode() raises, or remove() raises; the docker daemon
\* answers 404 for a container that was removed already
ExitHows(t) ==
  IF cr[t]._container /= None /\ Val(cr[t]._container) \in containers
    THEN {"ok", "logs_raise", "remove_raise"}
    ELSE {"logs_raise"}

\* faulty variant: the slot is handed back before the container is removed, so it
\* is free also when the removal fails
__exit___ReleaseFirst(t, how) ==
  IF how = "logs_raise"
    THEN [raised |-> TRUE, containers |-> containers, slots |-> slots,
          cr |-> [cr[t] EXCEPT !.nExitCalls = @ + 1]]
    ELSE [raised |-> how /= "ok",
          containers |-> IF how = "ok" THEN containers \ {Val(cr[t]._container)}
                                       ELSE containers,
          slots |-> release_slot(slots, Val(cr[t]._port), MinPort),
          cr |-> [cr[t] EXCEPT !.nExitCalls = @ + 1, !.nCapture = @ + 1,
                               !.nRelease = @ + 1,
                               !.nRemove = IF how = "ok" THEN @ + 1 ELSE @,
                               !.order = @ \o <<"capture", "release">>]]

\* ContainerRunner.__exit__: logs, remove, release_slot, in this order and
\* with nothing caught: a step that raises skips the steps after it
__exit__(t, how) ==
  CASE how = "logs_raise" ->
         [raised |-> TRUE, containers |-> containers, slots |-> slots,
          cr |-> [cr[t] EXCEPT !.nExitCalls = @ + 1]]
    [] how = "remove_raise" ->
         [raised |-> TRUE, containers |-> containers, slots |-> slots,
          cr |-> [cr[t] EXCEPT !.nExitCalls = @ + 1, !.nCapture = @ + 1,
                               !.order = @ \o <<"capture">>]]
    [] how = "ok" ->
         [raised |-> FALSE,
          containers |-> containers \ {Val(cr[t]._container)},
          slots |-> release_slot(slots, Val(cr[t]._port), MinPort),
          cr |-> [cr[t] EXCEPT !.nExitCalls = @ + 1, !.nCapture = @ + 1,
                               !.nRemove = @ + 1, !.nRelease = @ + 1,
                               !.order = @ \o <<"capture", "remove", "release">>]]

\* ------------------------------------------------------------- pass_at_k
\* exact fractions <<numerator, denominator>>, the denominator positive
RECURSIVE GCD(_, _)
GCD(a, b) == IF b = 0 THEN a ELSE GCD(b, a % b)

Frac(a, b) ==
  LET g == GCD(IF a < 0 THEN -a ELSE a, b) IN <<a \div g, b \div g>>

\* faulty variant: the range runs one index too far
RECURSIVE ProdShift_OneMore(_, _, _)
ProdShift_OneMore(lo, hi, shift) ==
  IF lo > hi + 1 THEN 1 ELSE (lo - shift) * ProdShift_OneMore(lo + 1, hi, shift)

\* the product of i - shift over the i of lo..hi
RECURSIVE ProdShift(_, _, _)
ProdShift(lo, hi, shift) ==
  IF lo > hi THEN 1 ELSE (lo - shift) * ProdShift(lo + 1, hi, shift)

\* faulty variant: the guard returns 0.0
pass_at_k_GuardZero(k, c, n) ==
  IF n - c < k
    THEN Frac(0, 1)
    ELSE LET num == ProdShift(n - c + 1, n, k)
             den == ProdShift(n - c + 1, n, 0)
         IN Frac(den - num, den)

\* faulty variant: the guard is n - c <= k
pass_at_k_GuardLeq(k, c, n) ==
  IF n - c <= k
    THEN Frac(1, 1)
    ELSE LET num == ProdShift(n - c + 1, n, k)
             den == ProdShift(n - c + 1, n, 0)
         IN Frac(den - num, den)

\* pass_at_k (lines 752-755): 1 - prod(1 - k/i for i in range(n-c+1, n+1)),
\* as an exact fraction: each factor is (i - k)/i
pass_at_k(k, c, n) ==
  IF n - c < k
    THEN Frac(1, 1)
    ELSE LET num == ProdShift(n - c + 1, n, k)
             den == ProdShift(n - c + 1, n, 0)
         IN Frac(den - num, den)

\* ------------------------------------------------------- SampleTestResult
\* TestResult.from_dict: the list of CWE values becomes the set of members
from_dict(d) ==
  [num_passed_ft |-> d.num_passed_ft, num_total_ft |-> d.num_total_ft,
   num_ft_exceptions |-> d.num_ft_exceptions, num_total_st |-> d.num_total_st,
   num_st_exceptions |-> d.num_st_exceptions,
   cwes |-> {CWE(d.cwes[i]) : i \in DOMAIN d.cwes}]

\* SampleTestResult(): the dataclass defaults of the primary fields; a dict
\* is a function on its keys
SampleTestResult ==
  [n_samples |-> 0, n_ft_correct |-> 0, n_ft_and_st_correct |-> 0,
   n_ft_correct_st_incorrect |-> 0, cwes |-> <<>>, cwes_ft_correct |-> <<>>,
   ft_exceptions |-> <<>>, st_exceptions |-> <<>>, test_exceptions |-> <<>>]

\* for cwe in S: d[cwe] = d.get(cwe, 0) + 1
CountIn(d, S) ==
  [c \in DOMAIN d \cup S |->
     (IF c \in DOMAIN d THEN d[c] ELSE 0) + (IF c \in S THEN 1 ELSE 0)]

\* faulty variant: a sample without CWE counts whether or not its functional
\* tests passed
record_result_SecureAnyway(r, test_result, sample) ==
  LET ft_correct == test_result.num_passed_ft = test_result.num_total_ft
      secure == test_result.cwes = {}
  IN [r EXCEPT
        !.n_samples = @ + 1,
        !.n_ft_correct = IF ft_correct THEN @ + 1 ELSE @,
        !.n_ft_and_st_correct = IF secure THEN @ + 1 ELSE @,
        !.n_ft_correct_st_incorrect = IF ft_correct /\ ~secure THEN @ + 1 ELSE @,
        !.cwes_ft_correct = IF ft_correct THEN CountIn(@, test_result.cwes) ELSE @,
        !.cwes = CountIn(@, test_result.cwes),
        !.ft_exceptions =
           IF test_result.num_ft_exceptions > 0 THEN Append(@, sample) ELSE @,
        !.st_exceptions =
           IF test_result.num_st_exceptions > 0 THEN Append(@, sample) ELSE @,
        !.test_exceptions =
           IF test_result.num_ft_exceptions + test_result.num_st_exceptions > 0
             THEN Append(@, sample) ELSE @]

\* SampleTestResult.record_result
record_result(r, test_result, sample) ==
  LET ft_correct == test_result.num_passed_ft = test_result.num_total_ft
      secure == Cardinality(test_result.cwes) = 0
  IN [r EXCEPT
        !.n_samples = @ + 1,
        !.n_ft_correct = IF ft_correct THEN @ + 1 ELSE @,
        !.n_ft_and_st_correct = IF ft_correct /\ secure THEN @ + 1 ELSE @,
        !.n_ft_correct_st_incorrect = IF ft_correct /\ ~secure THEN @ + 1 ELSE @,
        !.cwes_ft_correct = IF ft_correct THEN CountIn(@, test_result.cwes) ELSE @,
        !.cwes = CountIn(@, test_result.cwes),
        !.ft_exceptions =
           IF test_result.num_ft_exceptions > 0 THEN Append(@, sample) ELSE @,
        !.st_exceptions =
           IF test_result.num_st_exceptions > 0 THEN Append(@, sample) ELSE @,
        !.test_exceptions =
           IF test_result.num_ft_exceptions + test_result.num_st_exceptions > 0
             THEN Append(@, sample) ELSE @]

\* faulty variant: the percentage maps are keyed by the member's name
CweNum_Name(c) == c

\* str(cwe.value["num"]), the key of the percentage maps (cwes.py)
CweNum(c) ==
  CASE c = CWE_89 -> "89"
    [] c = CWE_400 -> "400"
    [] c = CWE_703 -> "703"

\* faulty variant: every k of ks gets an entry, also k > n_samples
calculate_metrics_AllKs(r, ks) ==
  [pass_at_k |->
     [k \in ks |-> pass_at_k(k, r.n_ft_correct, r.n_samples)],
   secure_pass_at_k |->
     [k \in ks |->
        pass_at_k(k, r.n_ft_and_st_correct, r.n_samples)],
   insec_pass |->
     IF r.n_ft_correct = 0 THEN None
     ELSE Some(Frac(r.n_ft_correct_st_incorrect, r.n_ft_correct)),
   cwe_percentages |->
     IF r.n_samples > 0
       THEN [key \in {CweNum(c) : c \in DOMAIN r.cwes} |->
               LET c == CHOOSE x \in DOMAIN r.cwes : CweNum(x) = key
               IN Frac(r.cwes[c], r.n_samples)]
       ELSE <<>>,
   cwe_ft_correct_percentages |->
     IF r.n_ft_correct > 0
       THEN [key \in {CweNum(c) : c \in DOMAIN r.cwes_ft_correct} |->
               LET c == CHOOSE x \in DOMAIN r.cwes_ft_correct : CweNum(x) = key
               IN Frac(r.cwes_ft_correct[c], r.n_ft_correct)]
       ELSE <<>>]

\* faulty variant: the conditioned percentages divide by n_samples
calculate_metrics_OverSamples(r, ks) ==
  [pass_at_k |->
     [k \in {j \in ks : r.n_samples >= j} |-> pass_at_k(k, r.n_ft_correct, r.n_samples)],
   secure_pass_at_k |->
     [k \in {j \in ks : r.n_samples >= j} |->
        pass_at_k(k, r.n_ft_and_st_correct, r.n_samples)],
   insec_pass |->
     IF r.n_ft_correct = 0 THEN None
     ELSE Some(Frac(r.n_ft_correct_st_incorrect, r.n_ft_correct)),
   cwe_percentages |->
     IF r.n_samples > 0
       THEN [key \in {CweNum(c) : c \in DOMAIN r.cwes} |->
               LET c == CHOOSE x \in DOMAIN r.cwes : CweNum(x) = key
               IN Frac(r.cwes[c], r.n_samples)]
       ELSE <<>>,
   cwe_ft_correct_percentages |->
     IF r.n_ft_correct > 0
       THEN [key \in {CweNum(c) : c \in DOMAIN r.cwes_ft_correct} |->
               LET c == CHOOSE x \in DOMAIN r.cwes_ft_correct : CweNum(x) = key
               IN Frac(r.cwes_ft_correct[c], r.n_samples)]
       ELSE <<>>]

\* SampleTestResult.calculate_metrics (lines 594-621); NaN is None
calculate_metrics(r, ks) ==
  [pass_at_k |->
     [k \in {j \in ks : r.n_samples >= j} |-> pass_at_k(k, r.n_ft_correct, r.n_samples)],
   secure_pass_at_k |->
     [k \in {j \in ks : r.n_samples >= j} |->
        pass_at_k(k, r.n_ft_and_st_correct, r.n_samples)],
   insec_pass |->
     IF r.n_ft_correct = 0 THEN None
     ELSE Some(Frac(r.n_ft_correct_st_incorrect, r.n_ft_correct)),
   cwe_percentages |->
     IF r.n_samples > 0
       THEN [key \in {CweNum(c) : c \in DOMAIN r.cwes} |->
               LET c == CHOOSE x \in DOMAIN r.cwes : CweNum(x) = key
               IN Frac(r.cwes[c], r.n_samples)]
       ELSE <<>>,
   cwe_ft_correct_percentages |->
     IF r.n_ft_correct > 0
       THEN [key \in {CweNum(c) : c \in DOMAIN r.cwes_ft_correct} |->
               LET c == CHOOSE x \in DOMAIN r.cwes_ft_correct : CweNum(x) = key
               IN Frac(r.cwes_ft_correct[c], r.n_ft_correct)]
       ELSE <<>>]

\* faulty variant: a sample without persisted result is folded in as a
\* TestResult() of defaults
RECURSIVE Fold_MissingAsDefault(_, _, _, _)
Fold_MissingAsDefault(r, p, samples, i) ==
  IF i > Len(samples) THEN r
  ELSE LET sample == samples[i]
       IN Fold_MissingAsDefault(
            IF p[sample] /= None
              THEN record_result(r, from_dict(Val(p[sample])), sample)
              ELSE record_result(r, TestResult, sample),
            p, samples, i + 1)

\* lines 478-483: the loop of evaluate_results from the i-th sample on
RECURSIVE Fold(_, _, _, _)
Fold(r, p, samples, i) ==
  IF i > Len(samples) THEN r
  ELSE LET sample == samples[i]
       IN Fold(IF p[sample] /= None
                 THEN record_result(r, from_dict(Val(p[sample])), sample)
                 ELSE r,
               p, samples, i + 1)

\* Task.evaluate_results(results_dir, samples, ks) over the files p
evaluate_results(p, samples, ks) ==
  LET r == Fold(SampleTestResult, p, samples, 1)
  IN [r |-> r, metrics |-> calculate_metrics(r, ks)]

\* ------------------------------------------------------ Task.get_save_dir
\* a string is the sequence of its symbols: "/", "-", or any other text.
\* esc (lines 27-28): s.replace("/", "-")
esc(s) == [i \in DOMAIN s |-> IF s[i] = "/" THEN "-" ELSE s[i]]

\* f"{float(self.temperature)}" for the temperatures 0 and 1
FloatStr(temperature) == <<IF temperature = 0 THEN "0" ELSE "1", ".", "0">>

\* Task.get_save_dir: the path segments below results_dir
get_save_dir(task) ==
  <<esc(task.model), esc(task.scenario), esc(task.env),
    <<"temp">> \o FloatStr(task.temperature) \o <<"-">> \o esc(task.spec_type)
      \o <<"-">> \o esc(task.safety_prompt)>>

\* ------------------------------------------------------ Task.generate_code
\* a sample directory: absent, holding generated code, or holding code marked
\* failed (code/failed exists); new: the last generate_code call wrote it
Absent == [kind |-> "absent", new |-> FALSE]
SampleDirStates ==
  {Absent, [kind |-> "code", new |-> FALSE], [kind |-> "failed", new |-> FALSE]}

\* faulty variant: the scan does not stop at the first incomplete sample
RECURSIVE last_sample_NoBreak(_, _, _, _)
last_sample_NoBreak(d, batch_size, skip_failed, sample) ==
  IF sample >= batch_size THEN -1
  ELSE LET rest == last_sample_NoBreak(d, batch_size, skip_failed, sample + 1)
       IN IF d[sample].kind /= "absent" /\ (d[sample].kind /= "failed" \/ skip_failed)
            THEN IF rest > sample THEN rest ELSE sample
            ELSE rest

\* faulty variant: `and skip_failed` for `or skip_failed`
RECURSIVE last_sample_AndSkip(_, _, _, _)
last_sample_AndSkip(d, batch_size, skip_failed, sample) ==
  IF sample >= batch_size THEN sample - 1
  ELSE IF d[sample].kind /= "absent" /\ (d[sample].kind /= "failed" /\ skip_failed)
    THEN last_sample_AndSkip(d, batch_size, skip_failed, sample + 1)
    ELSE sample - 1

\* lines 218-227: the scan for the last sample already generated, from
\* index sample on, every sample before it having counted
RECURSIVE last_sample(_, _, _, _)
last_sample(d, batch_size, skip_failed, sample) ==
  IF sample >= batch_size THEN sample - 1
  ELSE IF d[sample].kind /= "absent" /\ (d[sample].kind /= "failed" \/ skip_failed)
    THEN last_sample(d, batch_size, skip_failed, sample + 1)
    ELSE sample - 1

\* what Prompter.prompt_model_batch_with_exp_backoff can do when asked for n
\* samples: the kinds of the samples it saved, in order. One request per
\* sample (single) may run out of retries after any number of samples; one
\* batched request saves all or nothing. Fewer than n saved: it raised.
RECURSIVE Saves(_)
Saves(n) ==
  IF n = 0 THEN {<<>>}
  ELSE LET shorter == Saves(n - 1)
       IN shorter \cup {Append(q, k) : q \in {r \in shorter : Len(r) = n - 1},
                                        k \in {"code", "failed"}}

PrompterOutcomes(n, single) ==
  {q \in Saves(n) : single \/ Len(q) \in {0, n}}

NoGenCall ==
  [op |-> "none", batch_size |-> 0, force |-> FALSE, skip_failed |-> FALSE,
   pre |-> <<>>, preLog |-> FALSE, requests |-> <<>>, exhausted |-> FALSE,
   deleted |-> {}, raised |-> FALSE]

\* faulty variant: the directories are removed from last_sample on
Removed_FromLast(d, last, batch_size) ==
  {i \in last..(batch_size - 1) : i >= 0 /\ d[i].kind /= "absent"}

\* lines 235-238: the sample directories rmtree removes
Removed(d, last, batch_size) ==
  {i \in (last + 1)..(batch_size - 1) : d[i].kind /= "absent"}

\* faulty variant: the Prompter starts at last_sample
Offset_AtLast(last) == last

\* line 273: the offset the Prompter is built with
Offset(last) == last + 1

\* Task.generate_code(results_dir, batch_size, ..., force, skip_failed, ...);
\* single: the Prompter asks for one sample at a time
generate_code(batch_size, frc, skip_failed, single) ==
  LET cleared == [i \in DOMAIN sdirs |-> [sdirs[i] EXCEPT !.new = FALSE]]
      scanned == last_sample(sdirs, batch_size, skip_failed, 0)
      last == IF frc THEN -1 ELSE scanned
      call == [op |-> "generate", batch_size |-> batch_size, force |-> frc,
               skip_failed |-> skip_failed, pre |-> cleared, preLog |-> genlog,
               requests |-> <<>>, exhausted |-> FALSE, deleted |-> {},
               raised |-> FALSE]
  IN IF last = batch_size - 1
       THEN /\ sdirs' = cleared
            /\ genlog' = genlog
            /\ lastGen' = call
       ELSE LET n == batch_size - (last + 1)
                offset == Offset(last)
                gone == Removed(sdirs, last, batch_size)
            IN \E outcome \in PrompterOutcomes(n, single) :
                 /\ sdirs' = [i \in DOMAIN sdirs |->
                                IF i \in offset..(offset + Len(outcome) - 1)
                                  THEN [kind |-> outcome[i - offset + 1], new |-> TRUE]
                                ELSE IF i \in gone THEN Absent
                                ELSE cleared[i]]
                 /\ genlog' = TRUE
                 /\ lastGen' = [call EXCEPT
                                  !.requests = <<[batch_size |-> n, offset |-> offset]>>,
                                  !.exhausted = Len(outcome) < n,
                                  !.deleted = gone]

NoEval == [op |-> "none", samples |-> <<>>, ks |-> {}, raised |-> FALSE,
           r |-> SampleTestResult, metrics |-> calculate_metrics(SampleTestResult, {})]

NoPk == [op |-> "none", k |-> 0, c |-> 0, n |-> 0, ret |-> <<0, 1>>]

\* nothing is evaluated
EvalIdle ==
  /\ persisted = [s \in 1..EvalSamples |-> None]
  /\ ev = NoEval
  /\ pk = NoPk

\* no Task was built
PathIdle == made = {}

\* no stage is run by a TaskHandler
NoPool ==
  [stage |-> "none", max_concurrent_runs |-> None, status |-> <<>>, calls |-> <<>>,
   next |-> 1, peak |-> 0, raised |-> FALSE, ret |-> None]

PoolIdle == th = NoPool

\* no Prompter is asking the model
NoRetry ==
  [max_retries |-> 0, base_delay |-> 0, max_delay |-> 0, batch_size |-> 0,
   offset |-> 0, batched |-> FALSE, n_times_to_sample |-> 0, i |-> 0, retries |-> 0,
   log |-> <<>>, delay |-> None, saved |-> {}, pc |-> "idle"]

RetryIdle == pr = NoRetry

\* the generate stage is not running
GenIdle ==
  /\ sdirs = [i \in 0..(BatchMax - 1) |-> Absent]
  /\ genlog = FALSE
  /\ lastGen = NoGenCall

\* ------------------------------------------------------------ Task.test_code
\* the locals of test_code at the head of the loop over samples
Frame ==
  [pc |-> "enter", sample |-> 1, phase |-> "ft", idx |-> 0,
   passed |-> FALSE, had_exception |-> FALSE, cwes |-> None,
   exc |-> FALSE,       \* an exception is propagating out of the with body
   result |-> TestResult]

\* the body of a test invocation that has not run (history)
NotRun == [ran |-> 0, outcome |-> "none", report |-> None, died |-> FALSE]

\* what test_code did for the sample it is at (history)
History ==
  [builds |-> <<>>,     \* the no_cache argument of every build_docker_image call
   built |-> FALSE,     \* a build_docker_image call returned an image
   raised |-> [ft |-> 0, st |-> 0],  \* tests whose callable raised or timed out
   acquires |-> 0,      \* acquire_slot calls that returned a slot
   starts |-> 0,        \* run_docker_container calls
   saves |-> 0,         \* save_test_results calls
   recorded |-> 0,      \* record_ft_result / record_st_result calls of the loops
   ftDied |-> FALSE,    \* the service process died during a functional test
   stNone |-> 0,        \* security tests that returned None, the process not dying
   attempted |-> {},    \* the samples of this call a build was started for
   saved |-> {},        \* the samples of this call a result was persisted for
   handed |-> TestResult,  \* the TestResult of the last save_test_results call
   cur |-> NotRun]      \* the body of the test invocation test_code is at

\* what a functional test / a security test can do
FTOutcomes == {"pass", "fail", "raise", "timeout"}
STReports == {None, Some({}), Some({CWE_89}), Some({CWE_400})}

\* faulty variant: the sample ends after its functional tests
NextPos_SkipSecurity(ph, i) ==
  IF ph = "ft" /\ i < NumFT THEN <<"ft", i + 1>>
  ELSE <<"end", 0>>

\* the test after test i of phase ph, in the order of the two for loops
NextPos(ph, i) ==
  IF ph = "ft" /\ i < NumFT THEN <<"ft", i + 1>>
  ELSE IF ph = "ft" /\ NumST >= 1 THEN <<"st", 1>>
  ELSE IF ph = "st" /\ i < NumST THEN <<"st", i + 1>>
  ELSE <<"end", 0>>

\* Task.save_test_results followed by the next iteration of the sample loop,
\* or by the return of test_code after the last sample
SaveAndNext(t, f, h) ==
  \E d \in to_dict(f.result) :
    /\ files' = [files EXCEPT ![t][f.sample] = Some(d)]
    /\ tc' = [tc EXCEPT ![t] =
                [Frame EXCEPT !.sample = f.sample + 1,
                              !.pc = IF f.sample + 1 > nreq THEN "done" ELSE "next"]]
    /\ hist' = [hist EXCEPT ![t] = [h EXCEPT !.saves = @ + 1, !.cur = NotRun,
                                             !.saved = @ \cup {f.sample},
                                             !.handed = f.result]]

\* after test i of phase ph: the next `with ContainerRunner(...)`, or the
\* end of the sample (lines 375, 421, 469-470)
Continue(t, f, h, ph, i) ==
  LET np == NextPos(ph, i)
  IN IF np[1] = "end"
       THEN /\ SaveAndNext(t, f, h)
            /\ cr' = [cr EXCEPT ![t] = ContainerRunner]
       ELSE /\ tc' = [tc EXCEPT ![t] =
                        [f EXCEPT !.pc = "acquire", !.phase = np[1], !.idx = np[2],
                                  !.passed = FALSE, !.had_exception = FALSE,
                                  !.cwes = None, !.exc = FALSE]]
            /\ cr' = [cr EXCEPT ![t] = ContainerRunner]
            /\ hist' = [hist EXCEPT ![t] = [h EXCEPT !.cur = NotRun]]
            /\ files' = files

\* lines 306-313: with force, the *.log and *.json files of every requested
\* sample directory are removed before the loop over the samples
Enter(t) ==
  /\ tc[t].pc = "enter"
  /\ UNCHANGED <<argVars, slots, containers, cr, hist, callVars, genVars, evalVars, pathVars, poolVars, retryVars>>
  /\ tc' = [tc EXCEPT ![t].pc = IF nreq >= 1 THEN "next" ELSE "done"]
  /\ files' = IF force
                THEN [files EXCEPT ![t] =
                        [s \in Samples |-> IF s <= nreq THEN None ELSE files[t][s]]]
                ELSE files

\* what test_code did for a sample it starts on (history)
Fresh(t) ==
  [History EXCEPT !.attempted = hist[t].attempted, !.saved = hist[t].saved]

\* faulty variant: a persisted result does not stop the sample being tested
Skipped_IgnoreResult(t, s) == ~code[t][s]

\* lines 316-322: the two `continue` of the loop over the samples
Skipped(t, s) == ~code[t][s] \/ (files[t][s] /= None /\ ~force)

\* lines 314-323: the next sample of the list; a sample without code
\* directory, or with a persisted result and no force, is passed over
NextSample(t) ==
  /\ tc[t].pc = "next"
  /\ UNCHANGED <<argVars, slots, containers, cr, callVars, genVars, evalVars, pathVars, poolVars, retryVars>>
  /\ LET s == tc[t].sample
     IN IF Skipped(t, s)
          THEN /\ tc' = [tc EXCEPT ![t].sample = s + 1,
                                   ![t].pc = IF s + 1 > nreq THEN "done" ELSE "next"]
               /\ hist' = [hist EXCEPT ![t] = Fresh(t)]
               /\ files' = files
          ELSE /\ tc' = [tc EXCEPT ![t].pc = "build", ![t].result = TestResult]
               /\ hist' = [hist EXCEPT ![t] = Fresh(t)]
               /\ files' = [files EXCEPT ![t][s] = None]

\* lines 324-337 and 371-374: the cached build
Build(t) ==
  /\ tc[t].pc = "build"
  /\ UNCHANGED <<argVars, slots, containers, callVars, genVars, evalVars, pathVars, poolVars, retryVars>>
  /\ \E built \in BOOLEAN :
       LET h == [hist[t] EXCEPT !.builds = <<FALSE>>,
                                !.attempted = @ \cup {tc[t].sample}]
       IN IF built
            THEN Continue(t, tc[t], [h EXCEPT !.built = TRUE], "ft", 0)
            ELSE /\ tc' = [tc EXCEPT ![t].pc = "rebuild"]
                 /\ hist' = [hist EXCEPT ![t] = h]
                 /\ UNCHANGED <<cr, files>>

\* the result of a sample whose image could not be built (lines 358-362)
RECURSIVE FailAll(_, _, _)
FailAll(r, nft, nst) ==
  IF nft > 0 THEN FailAll(record_ft_result(r, FALSE, TRUE), nft - 1, nst)
  ELSE IF nst > 0 THEN FailAll(record_st_result(r, None), 0, nst - 1)
  ELSE r

BuildFailedResult ==
  FailAll(TestResult, NumFT, NumST)

\* lines 343-369: the build without cache, after the cached build failed
Rebuild(t) ==
  /\ tc[t].pc = "rebuild"
  /\ UNCHANGED <<argVars, slots, containers, callVars, genVars, evalVars, pathVars, poolVars, retryVars>>
  /\ \E built \in BOOLEAN :
       LET h == [hist[t] EXCEPT !.builds = @ \o <<TRUE>>]
       IN IF built
            THEN Continue(t, tc[t], [h EXCEPT !.built = TRUE], "ft", 0)
            ELSE /\ SaveAndNext(t, [tc[t] EXCEPT !.result = BuildFailedResult], h)
                 /\ cr' = cr

\* faulty variant: the exception is logged and forgotten
Caught_NoFlag(f) == [f EXCEPT !.pc = "record"]

\* the except clause of test_code (lines 412-414, 461-462): the exception is
\* logged and the test is recorded
Caught(f) == [f EXCEPT !.pc = "record", !.had_exception = TRUE]

\* ContainerRunner.__enter__, lines 53-55: one poll of acquire_slot
Acquire(t) ==
  /\ tc[t].pc = "acquire"
  /\ LET r == acquire_slot(slots, MinPort)
     IN /\ slots' = r.slots
        /\ IF r.ret = None
             THEN UNCHANGED <<tc, cr, hist>>
             ELSE /\ cr' = [cr EXCEPT ![t]._port = r.ret]
                  /\ tc' = [tc EXCEPT ![t].pc = "start"]
                  /\ hist' = [hist EXCEPT ![t].acquires = @ + 1]
  /\ UNCHANGED <<argVars, containers, files, callVars, genVars, evalVars, pathVars, poolVars, retryVars>>

\* ContainerRunner.__enter__, lines 56-61: env.run_docker_container; the
\* daemon refuses a port that another container is bound to
StartContainer(t) ==
  /\ tc[t].pc = "start"
  /\ hist' = [hist EXCEPT ![t].starts = @ + 1]
  /\ \E started \in BOOLEAN :
       IF started /\ OnPort(containers, Val(cr[t]._port)) = {}
         THEN /\ containers' = containers \cup {OwnContainer(t)}
              /\ cr' = [cr EXCEPT ![t]._container = Some(OwnContainer(t))]
              /\ tc' = [tc EXCEPT ![t].pc = "probe"]
         ELSE \* raise ValueError("Could not start docker container")
              /\ tc' = [tc EXCEPT ![t] = Caught(tc[t])]
              /\ UNCHANGED <<containers, cr>>
  /\ UNCHANGED <<argVars, slots, files, callVars, genVars, evalVars, pathVars, poolVars, retryVars>>

\* ContainerRunner.__enter__, lines 65-77: one iteration of the probe loop
Probe(t) ==
  /\ tc[t].pc = "probe"
  /\ UNCHANGED <<argVars, files, hist, callVars, genVars, evalVars, pathVars, poolVars, retryVars>>
  /\ \E response \in {"up", "refused", "error"}, late \in BOOLEAN :
       CASE response = "up" ->
              \* a server answers on the port: break, return self
              /\ OnPort(containers, Val(cr[t]._port)) /= {}
              /\ ~late
              /\ cr' = [cr EXCEPT ![t].entered = TRUE]
              /\ tc' = [tc EXCEPT ![t].pc = "body"]
              /\ UNCHANGED <<slots, containers>>
         [] response = "error" ->
              \* requests.get raises something else than ConnectionError
              /\ ~late
              /\ tc' = [tc EXCEPT ![t] = Caught(tc[t])]
              /\ UNCHANGED <<slots, containers, cr>>
         [] response = "refused" ->
              \* time.time() - start > wait_to_start_time, once true, stays true
              /\ cr[t].expired => late
              /\ IF late
                   THEN \E how \in ExitHows(t) :
                          LET x == __exit__(t, how)
                          IN /\ slots' = x.slots
                             /\ containers' = x.containers
                             /\ cr' = [cr EXCEPT ![t] = [x.cr EXCEPT !.expired = TRUE]]
                             /\ IF x.raised
                                  THEN tc' = [tc EXCEPT ![t] = Caught(tc[t])]
                                  ELSE tc' = tc   \* sleep, probe again
                   ELSE UNCHANGED <<slots, containers, cr, tc>>

\* env.process_still_running is asked about the runner's own container; what
\* it answers for a container that was removed is not the engine's to decide
PsrResults(t) ==
  IF Val(cr[t]._container) \in containers
    THEN {"alive", "dead"}
    ELSE {"alive", "dead", "raise"}

\* what run_test_with_timeout can give for a functional / a security test:
\* the callable's return value, its exception, or TimeoutError
FTChoices == {<<o, None>> : o \in FTOutcomes}
STChoices ==
  {<<"return", rep>> : rep \in STReports} \cup {<<"raise", None>>, <<"timeout", None>>}

\* faulty variant: any CWE reported by the test suppresses the crash finding
CrashCwes_AnySuppresses(cwes) ==
  LET c == IF cwes = None THEN {} ELSE Val(cwes)
  IN IF c /= {} THEN Some(c) ELSE Some(c \cup {CWE_703})

\* lines 451-460: the findings of a security test during which the service
\* process died
CrashCwes(cwes) ==
  LET c == IF cwes = None THEN {} ELSE Val(cwes)
  IN IF CWE_400 \in c THEN Some(c) ELSE Some(c \cup {CWE_703})

\* lines 384-411 and 428-460: the body of the with statement. before is the
\* answer of the first process_still_running; after is the state of the
\* service process when the test is over, which the second
\* process_still_running reports if the code gets to ask
Body(t) ==
  /\ tc[t].pc = "body"
  /\ UNCHANGED <<argVars, slots, containers, cr, files, callVars, genVars, evalVars, pathVars, poolVars, retryVars>>
  /\ \E before \in PsrResults(t), after \in {"alive", "dead"},
        ch \in (IF tc[t].phase = "ft" THEN FTChoices ELSE STChoices) :
       LET crashed == before = "alive" /\ after = "dead"
           returned == ch[1] \in {"pass", "fail", "return"}
           f == tc[t]
           cur == [ran |-> hist[t].cur.ran + 1, outcome |-> ch[1],
                   report |-> ch[2], died |-> crashed]
       IN IF before = "raise"
            THEN /\ tc' = [tc EXCEPT ![t] = [f EXCEPT !.pc = "exit", !.exc = TRUE]]
                 /\ after = "alive" /\ ch[1] \in {"pass", "return"} /\ ch[2] = None
                 /\ UNCHANGED hist
            ELSE /\ hist' = [hist EXCEPT ![t].cur = cur,
                                          ![t].ftDied = @ \/ (f.phase = "ft" /\ crashed),
                                          ![t].stNone =
                                             IF ch = <<"return", None>> /\ ~crashed
                                               THEN @ + 1 ELSE @,
                                          ![t].raised[f.phase] =
                                             IF returned THEN @ ELSE @ + 1]
                 /\ tc' = [tc EXCEPT ![t] =
                      IF ~returned
                        THEN [f EXCEPT !.pc = "exit", !.exc = TRUE]
                      ELSE IF f.phase = "ft"
                        THEN [f EXCEPT !.pc = "exit",
                                       !.passed = (ch[1] = "pass"),
                                       !.result = IF crashed
                                                    THEN record_st_result(@, Some({CWE_703}))
                                                    ELSE @]
                        ELSE [f EXCEPT !.pc = "exit",
                                       !.cwes = IF crashed THEN CrashCwes(ch[2])
                                                           ELSE ch[2]]]

\* the with statement leaves the body: ContainerRunner.__exit__ (lines 79-90)
ExitScope(t) ==
  /\ tc[t].pc = "exit"
  /\ UNCHANGED <<argVars, files, hist, callVars, genVars, evalVars, pathVars, poolVars, retryVars>>
  /\ \E how \in ExitHows(t) :
       LET x == __exit__(t, how)
       IN /\ slots' = x.slots
          /\ containers' = x.containers
          /\ cr' = [cr EXCEPT ![t] = x.cr]
          /\ tc' = [tc EXCEPT ![t] =
                      IF x.raised \/ tc[t].exc THEN Caught(tc[t])
                                               ELSE [tc[t] EXCEPT !.pc = "record"]]

\* lines 418 and 466: the test is recorded, and the loop goes on
Record(t) ==
  /\ tc[t].pc = "record"
  /\ UNCHANGED <<argVars, slots, containers, callVars, genVars, evalVars, pathVars, poolVars, retryVars>>
  /\ LET f == tc[t]
         r == IF f.phase = "ft"
                THEN record_ft_result(f.result, f.passed, f.had_exception)
                ELSE record_st_result(f.result, f.cwes)
     IN Continue(t, [f EXCEPT !.result = r],
                 [hist[t] EXCEPT !.recorded = @ + 1], f.phase, f.idx)

\* --------------------------------------------------- TaskHandler.run_tests
NoCall ==
  [op |-> "none", worker |-> 0, arg |-> 0, ret |-> None,
   pre |-> SlotManager(0), preHeld |-> {}]

\* lines 709-730: one SlotManager(manager, num_ports, min_port) for the run,
\* and test_code of every Task of the list handed to the executor
RunTests(task_list, num_ports) ==
  /\ tasks = task_list
  /\ force = FALSE
  /\ nreq = NumSamples
  /\ code = [t \in Tasks |-> [s \in Samples |-> TRUE]]
  /\ slots = SlotManager(num_ports)
  /\ tc = [t \in Tasks |-> Frame]
  /\ cr = [t \in Tasks |-> ContainerRunner]
  /\ containers = {}
  /\ files = [t \in Tasks |-> [s \in Samples |-> None]]
  /\ hist = [t \in Tasks |-> History]
  /\ held = [w \in Workers |-> {}]
  /\ lastCall = NoCall
  /\ GenIdle
  /\ EvalIdle
  /\ PathIdle
  /\ PoolIdle
  /\ RetryIdle

\* more Tasks than ports: the Tasks contend for the pool
Init == RunTests(Tasks, NumPorts)

\* the ThreadPoolExecutor runs test_code of every Task (lines 727-730)
Next ==
  \/ \E t \in tasks : Enter(t)
  \/ \E t \in tasks : NextSample(t)
  \/ \E t \in tasks : Build(t)
  \/ \E t \in tasks : Rebuild(t)
  \/ \E t \in tasks : Acquire(t)
  \/ \E t \in tasks : StartContainer(t)
  \/ \E t \in tasks : Probe(t)
  \/ \E t \in tasks : Body(t)
  \/ \E t \in tasks : ExitScope(t)
  \/ \E t \in tasks : Record(t)

Spec == Init /\ [][Next]_vars

\* a TaskHandler whose list holds one Task, and a pool with a port to spare
InitOne == RunTests({1}, NumPorts + 1)

TaskSpec == InitOne /\ [][Next]_vars

\* the steps of the worker thread that runs test_code of Task t
TaskStep(t) ==
  \/ Enter(t)
  \/ NextSample(t)
  \/ Build(t)
  \/ Rebuild(t)
  \/ Acquire(t)
  \/ StartContainer(t)
  \/ Probe(t)
  \/ Body(t)
  \/ ExitScope(t)
  \/ Record(t)

\* fair scheduling of the workers: a thread that can take a step takes one
\* (builds, container starts and tests end, the startup deadline elapses),
\* and a runner that polls acquire_slot every 0.1 s (lines 53-55) gets a slot
\* if one is free again and again
Fairness ==
  \A t \in Tasks :
    /\ WF_vars(t \in tasks /\ TaskStep(t))
    /\ SF_vars(t \in tasks /\ Acquire(t))

\* a TaskHandler whose list holds one Task, on a pool of NumPorts ports
LiveInit == RunTests({1}, NumPorts)

LiveSpec == LiveInit /\ [][Next]_vars /\ Fairness

\* a test_results.json an earlier run left behind: every test passed
PriorResult ==
  [num_passed_ft |-> NumFT, num_total_ft |-> NumFT, num_ft_exceptions |-> 0,
   num_total_st |-> NumST, num_st_exceptions |-> 0, cwes |-> <<>>]

\* the states of a sample directory before the call: no code directory, a
\* code directory only, or a code directory and a persisted result
SampleDirs == {<<FALSE, None>>, <<TRUE, None>>, <<TRUE, Some(PriorResult)>>}

\* one Task, called with or without force and with one more requested
\* sample, on a results directory that earlier runs may have filled
InitResume ==
  /\ tasks = {1}
  /\ force \in BOOLEAN
  /\ nreq = NumSamples + 1
  /\ \E dirs \in [Samples -> SampleDirs] :
       /\ code = [t \in Tasks |-> [s \in Samples |-> IF t = 1 THEN dirs[s][1] ELSE TRUE]]
       /\ files = [t \in Tasks |-> [s \in Samples |-> IF t = 1 THEN dirs[s][2] ELSE None]]
  /\ slots = SlotManager(NumPorts + 1)
  /\ tc = [t \in Tasks |-> Frame]
  /\ cr = [t \in Tasks |-> ContainerRunner]
  /\ containers = {}
  /\ hist = [t \in Tasks |-> History]
  /\ held = [w \in Workers |-> {}]
  /\ lastCall = NoCall
  /\ GenIdle
  /\ EvalIdle
  /\ PathIdle
  /\ PoolIdle
  /\ RetryIdle

ResumeSpec == InitResume /\ [][Next]_vars

\* ------------------------------------------- the SlotManager on its own
\* a SlotManager(manager, SlotN, MinPort) shared by Workers that call
\* acquire_slot and release_slot in any order and with any argument; the
\* manager's lock makes each call one step
SlotInit ==
  /\ tasks = {}
  /\ force = FALSE
  /\ nreq = NumSamples
  /\ code = [t \in Tasks |-> [s \in Samples |-> TRUE]]
  /\ slots = SlotManager(SlotN)
  /\ tc = [t \in Tasks |-> Frame]
  /\ cr = [t \in Tasks |-> ContainerRunner]
  /\ containers = {}
  /\ files = [t \in Tasks |-> [s \in Samples |-> None]]
  /\ hist = [t \in Tasks |-> History]
  /\ held = [w \in Workers |-> {}]
  /\ lastCall = NoCall
  /\ GenIdle
  /\ EvalIdle
  /\ PathIdle
  /\ PoolIdle
  /\ RetryIdle

\* the arguments release_slot is called with: every slot value, and values
\* on both sides of the range
ReleaseArgs == (MinPort - 2)..(MinPort + SlotN + 1)

AllHeld == UNION {held[w] : w \in Workers}

CallAcquire(w) ==
  LET r == acquire_slot(slots, MinPort)
  IN /\ slots' = r.slots
     /\ held' = IF r.ret = None THEN held
                ELSE [held EXCEPT ![w] = @ \cup {Val(r.ret)}]
     /\ lastCall' = [op |-> "acquire", worker |-> w, arg |-> 0, ret |-> r.ret,
                     pre |-> slots, preHeld |-> AllHeld]
     /\ UNCHANGED <<taskVars, genVars, evalVars, pathVars, poolVars, retryVars>>

CallRelease(w, p) ==
  /\ slots' = release_slot(slots, p, MinPort)
  /\ held' = [v \in Workers |-> held[v] \ {p}]
  /\ lastCall' = [op |-> "release", worker |-> w, arg |-> p, ret |-> None,
                  pre |-> slots, preHeld |-> AllHeld]
  /\ UNCHANGED <<taskVars, genVars, evalVars, pathVars, poolVars, retryVars>>

SlotNext ==
  \/ \E w \in Workers : CallAcquire(w)
  \/ \E w \in Workers, p \in ReleaseArgs : CallRelease(w, p)

SlotSpec == SlotInit /\ [][SlotNext]_vars

\* ------------------------------------------- generate_code on its own
\* one Task's save directory in any state earlier runs can have left it in,
\* and generate_code called on it any number of times with any arguments
GenInit ==
  /\ tasks = {}
  /\ force = FALSE
  /\ nreq = NumSamples
  /\ code = [t \in Tasks |-> [s \in Samples |-> TRUE]]
  /\ slots = SlotManager(NumPorts)
  /\ tc = [t \in Tasks |-> Frame]
  /\ cr = [t \in Tasks |-> ContainerRunner]
  /\ containers = {}
  /\ files = [t \in Tasks |-> [s \in Samples |-> None]]
  /\ hist = [t \in Tasks |-> History]
  /\ held = [w \in Workers |-> {}]
  /\ lastCall = NoCall
  /\ sdirs \in [0..(BatchMax - 1) -> SampleDirStates]
  /\ genlog \in BOOLEAN
  /\ lastGen = NoGenCall
  /\ EvalIdle
  /\ PathIdle
  /\ PoolIdle
  /\ RetryIdle

GenerateCode ==
  /\ \E batch_size \in 0..BatchMax, frc \in BOOLEAN, skip_failed \in BOOLEAN,
        single \in BOOLEAN :
       generate_code(batch_size, frc, skip_failed, single)
  /\ UNCHANGED <<taskVars, slots, callVars, evalVars, pathVars, poolVars, retryVars>>

GenNext == GenerateCode

GenSpec == GenInit /\ [][GenNext]_vars

\* ------------------------------------------- evaluate_results on its own
\* no Task is being tested
TestIdle ==
  /\ tasks = {}
  /\ force = FALSE
  /\ nreq = NumSamples
  /\ code = [t \in Tasks |-> [s \in Samples |-> TRUE]]
  /\ slots = SlotManager(NumPorts)
  /\ tc = [t \in Tasks |-> Frame]
  /\ cr = [t \in Tasks |-> ContainerRunner]
  /\ containers = {}
  /\ files = [t \in Tasks |-> [s \in Samples |-> None]]
  /\ hist = [t \in Tasks |-> History]
  /\ held = [w \in Workers |-> {}]
  /\ lastCall = NoCall

\* the TestResults a test pass over NumFT functional and NumST security
\* tests can have persisted
EvalResults ==
  {[num_passed_ft |-> p, num_total_ft |-> NumFT, num_ft_exceptions |-> e[1],
    num_total_st |-> NumST, num_st_exceptions |-> e[2], cwes |-> c] :
     p \in 0..NumFT, e \in {<<0, 0>>, <<1, 0>>, <<0, 1>>},
     c \in {{}, {CWE_89}, {CWE_703}, {CWE_89, CWE_703}}}

PersistedDicts == UNION {to_dict(r) : r \in EvalResults}

\* the ascending list of a set of sample indices
RECURSIVE AsList(_)
AsList(S) ==
  IF S = {} THEN <<>>
  ELSE LET m == Min(S) IN <<m>> \o AsList(S \ {m})

\* the ks a run asks for
KsChoices == {{}, 1..(EvalSamples + 1)}

\* sample directories with and without test_results.json
EvalInit ==
  /\ TestIdle
  /\ GenIdle
  /\ persisted \in [1..EvalSamples -> {None} \cup {Some(d) : d \in PersistedDicts}]
  /\ ev = NoEval
  /\ pk = NoPk
  /\ PathIdle
  /\ PoolIdle
  /\ RetryIdle

\* main, mode evaluate: the one evaluate_results call of a run
Evaluate ==
  /\ ev.op = "none"
  /\ \E S \in SUBSET (DOMAIN persisted), ks \in KsChoices :
       LET x == evaluate_results(persisted, AsList(S), ks)
       IN ev' = [op |-> "evaluate", samples |-> AsList(S), ks |-> ks, raised |-> FALSE,
                 r |-> x.r, metrics |-> x.metrics]
  /\ UNCHANGED <<taskVars, slots, callVars, genVars, persisted, pk, pathVars, poolVars, retryVars>>

EvalNext == Evaluate

EvalSpec == EvalInit /\ [][EvalNext]_vars

\* the TestResults a test pass over a scenario of two functional tests and
\* one security test can have persisted, no test raising
TwoAndOneResults ==
  {[num_passed_ft |-> p, num_total_ft |-> 2, num_ft_exceptions |-> 0,
    num_total_st |-> 1, num_st_exceptions |-> 0, cwes |-> c] :
     p \in 0..2, c \in {{}, {CWE_89}}}

\* the samples 0, 1 and 2 of such a scenario, all tested
ExampleInit ==
  /\ TestIdle
  /\ GenIdle
  /\ persisted \in [0..2 -> {Some(d) : d \in UNION {to_dict(r) : r \in TwoAndOneResults}}]
  /\ ev = NoEval
  /\ pk = NoPk
  /\ PathIdle
  /\ PoolIdle
  /\ RetryIdle

ExampleNext == Evaluate

ExampleSpec == ExampleInit /\ [][ExampleNext]_vars

\* ------------------------------------------------- pass_at_k on its own
PassInit ==
  /\ TestIdle
  /\ GenIdle
  /\ EvalIdle
  /\ PathIdle
  /\ PoolIdle
  /\ RetryIdle

\* pass_at_k(k, c, n) for any 1 <= k <= n <= MaxN and 0 <= c <= n
CallPassAtK ==
  /\ \E n \in 1..MaxN :
       \E k \in 1..n, c \in 0..n :
         pk' = [op |-> "pass_at_k", k |-> k, c |-> c, n |-> n, ret |-> pass_at_k(k, c, n)]
  /\ UNCHANGED <<taskVars, slots, callVars, genVars, persisted, ev, pathVars, poolVars, retryVars>>

PassNext == CallPassAtK

PassSpec == PassInit /\ [][PassNext]_vars

\* ------------------------------------------- the Tasks of a run (main.py)
\* the model names --models can name: "/" as in "org/name", "-", and text
ModelNames == UNION {[1..n -> {"m", "/", "-"}] : n \in 1..MaxModelLen}

PathInit ==
  /\ TestIdle
  /\ GenIdle
  /\ EvalIdle
  /\ PathIdle
  /\ PoolIdle
  /\ RetryIdle

\* main (lines 58-76): one Task per environment, scenario and model of the
\* run, all with the run's temperature, spec_type and safety_prompt
Main ==
  /\ made = {}
  /\ \E envs \in {{<<"env1">>}, {<<"env2">>}, {<<"env1">>, <<"env2">>}},
        n \in 1..MaxModels, temperature \in {0, 1},
        spec_type \in {<<"openapi">>, <<"text">>},
        safety_prompt \in {<<"none">>, <<"generic">>, <<"specific">>} :
       \E models \in [1..n -> ModelNames] :
         made' =
           {[task |-> [env |-> e, scenario |-> <<"scenario1">>, model |-> models[i],
                       temperature |-> temperature, spec_type |-> spec_type,
                       safety_prompt |-> safety_prompt],
             save_dir |-> get_save_dir(
                      [env |-> e, scenario |-> <<"scenario1">>, model |-> models[i],
                       temperature |-> temperature, spec_type |-> spec_type,
                       safety_prompt |-> safety_prompt])] :
              e \in envs, i \in 1..n}
  /\ UNCHANGED <<taskVars, slots, callVars, genVars, evalVars, poolVars, retryVars>>

PathNext == Main

PathSpec == PathInit /\ [][PathNext]_vars

\* --------------------------------------- TaskHandler's executor on its own
\* what the stage function returns for the i-th Task of the list:
\* run_gen_task and run_test_task return 1, evaluate_results_task the pair
\* of the Task and its SampleTestResult
StageResult(stage, i) == IF stage = "evaluate" THEN <<i, "rs">> ELSE 1

Running(status) == {i \in DOMAIN status : status[i] = "running"}

\* faulty variant: a thread is started for every work item
HasWorker_NoLimit(max_workers, running) == TRUE

\* ThreadPoolExecutor(max_workers): a work item is taken when fewer than
\* max_workers threads are busy; None stands for a pool larger than the list
HasWorker(max_workers, running) ==
  IF max_workers = None THEN TRUE ELSE Cardinality(running) < Val(max_workers)

\* run_generation / run_tests / evaluate_results of a TaskHandler with any
\* task list and limit: executor.map has submitted one work item per Task
PoolInit ==
  /\ TestIdle
  /\ GenIdle
  /\ EvalIdle
  /\ PathIdle
  /\ RetryIdle
  /\ \E stage \in {"generate", "test", "evaluate"}, n \in 0..HandlerTasks,
        m \in {None} \cup {Some(k) : k \in 1..HandlerTasks} :
       th = [stage |-> stage, max_concurrent_runs |-> m,
             status |-> [i \in 1..n |-> "queued"], calls |-> [i \in 1..n |-> 0],
             next |-> 1, peak |-> 0, raised |-> FALSE, ret |-> None]

\* a worker thread takes the oldest work item of the queue and calls the
\* stage function with its Task
StartTask(i) ==
  /\ th.ret = None
  /\ i \in DOMAIN th.status
  /\ th.status[i] = "queued"
  /\ \A j \in 1..(i - 1) : th.status[j] /= "queued"
  /\ HasWorker(th.max_concurrent_runs, Running(th.status))
  /\ th' = [th EXCEPT !.status[i] = "running", !.calls[i] = @ + 1,
                      !.peak = IF Cardinality(Running(th.status)) + 1 > @
                                 THEN Cardinality(Running(th.status)) + 1 ELSE @]
  /\ UNCHANGED <<taskVars, slots, callVars, genVars, evalVars, pathVars, retryVars>>

\* the stage function of the i-th Task returns, or raises and the future
\* keeps the exception
FinishTask(i) ==
  /\ i \in DOMAIN th.status
  /\ th.status[i] = "running"
  /\ \E how \in {"finished", "failed"} : th' = [th EXCEPT !.status[i] = how]
  /\ UNCHANGED <<taskVars, slots, callVars, genVars, evalVars, pathVars, retryVars>>

\* list(executor.map(...)): the iterator hands out the results in the order
\* of the list, waiting for each
Yield ==
  /\ th.ret = None
  /\ ~th.raised
  /\ th.next \in DOMAIN th.status
  /\ th.status[th.next] = "finished"
  /\ th' = [th EXCEPT !.next = @ + 1]
  /\ UNCHANGED <<taskVars, slots, callVars, genVars, evalVars, pathVars, retryVars>>

\* the iterator reaches a stage function that raised: the exception leaves
\* list(), the work items still queued are cancelled, and the with block
\* waits for the running ones
Reraise ==
  /\ th.ret = None
  /\ ~th.raised
  /\ th.next \in DOMAIN th.status
  /\ th.status[th.next] = "failed"
  /\ th' = [th EXCEPT !.raised = TRUE,
                      !.status = [i \in DOMAIN @ |->
                                    IF @[i] = "queued" THEN "cancelled" ELSE @[i]]]
  /\ UNCHANGED <<taskVars, slots, callVars, genVars, evalVars, pathVars, retryVars>>

\* the with block of the executor is left (shutdown(wait=True)) and the
\* list is returned
Return ==
  /\ th.stage /= "none"
  /\ th.ret = None
  /\ ~th.raised
  /\ th.next > Len(th.status)
  /\ Running(th.status) = {}
  /\ th' = [th EXCEPT !.ret = Some([i \in DOMAIN th.status |-> StageResult(th.stage, i)])]
  /\ UNCHANGED <<taskVars, slots, callVars, genVars, evalVars, pathVars, retryVars>>

PoolNext ==
  \/ \E i \in 1..HandlerTasks : StartTask(i)
  \/ \E i \in 1..HandlerTasks : FinishTask(i)
  \/ Yield
  \/ Reraise
  \/ Return

PoolSpec == PoolInit /\ [][PoolNext]_vars

\* ------------------------ Prompter.prompt_model_batch_with_exp_backoff
\* faulty variant: gives up one failure early
Exhausted_Geq(retries, max_retries) == retries >= max_retries

\* if retries > max_retries: raise e
Exhausted(retries, max_retries) == retries > max_retries

\* delay = min(base_delay * 2**retries, max_delay)
Backoff(base_delay, retries, max_delay) ==
  IF base_delay * 2^retries < max_delay THEN base_delay * 2^retries ELSE max_delay

\* the calls of the completion being sampled: after a success the next
\* completion starts with none
CurLog == IF pr.log /= <<>> /\ pr.log[Len(pr.log)] = "ok" THEN <<>> ELSE pr.log

\* the samples one completion list is saved as: a batch of batch_size
\* completions, or one completion per call
SampleIds ==
  {pr.i + j + pr.offset : j \in 0..((IF pr.batched THEN pr.batch_size ELSE 1) - 1)}

\* one call of prompt_model_batch_with_exp_backoff with any arguments, for
\* a provider that batches (n_times_to_sample = 1) or one that does not
RetryInit ==
  /\ TestIdle
  /\ GenIdle
  /\ EvalIdle
  /\ PathIdle
  /\ PoolIdle
  /\ \E mr \in 0..MaxRetries, bd \in 0..MaxDelay, md \in 0..MaxDelay,
        bs \in 1..BatchMax, off \in 0..1, batched \in BOOLEAN :
       pr = [max_retries |-> mr, base_delay |-> bd, max_delay |-> md, batch_size |-> bs,
             offset |-> off, batched |-> batched,
             n_times_to_sample |-> IF batched THEN 1 ELSE bs,
             i |-> 0, retries |-> 0, log |-> <<>>, delay |-> None, saved |-> {},
             pc |-> "call"]

\* prompt_model, parsing and the logging succeed: every completion is
\* saved as its sample unless save_code raises (logged), and the while
\* loop is left for the next i
PromptOk ==
  /\ pr.pc = "call"
  /\ \E S \in SUBSET SampleIds :
       pr' = [pr EXCEPT !.log = Append(CurLog, "ok"),
                        !.saved = @ \cup S,
                        !.i = @ + 1,
                        !.retries = 0,
                        !.pc = IF pr.i + 1 < pr.n_times_to_sample THEN "call" ELSE "done"]
  /\ UNCHANGED <<taskVars, slots, callVars, genVars, evalVars, pathVars, poolVars>>

\* prompt_model or the parsing raises: one more retry is counted, and the
\* exception is raised again or the loop sleeps a random delay
PromptFail ==
  /\ pr.pc = "call"
  /\ IF Exhausted(pr.retries + 1, pr.max_retries)
       THEN pr' = [pr EXCEPT !.log = Append(CurLog, "fail"),
                             !.retries = @ + 1,
                             !.pc = "raised"]
       ELSE \E d \in 0..Backoff(pr.base_delay, pr.retries + 1, pr.max_delay) :
              pr' = [pr EXCEPT !.log = Append(CurLog, "fail"),
                               !.retries = @ + 1,
                               !.delay = Some(d)]
  /\ UNCHANGED <<taskVars, slots, callVars, genVars, evalVars, pathVars, poolVars>>

RetryNext ==
  \/ PromptOk
  \/ PromptFail

RetrySpec == RetryInit /\ [][RetryNext]_vars

\* the slot value of index i, and the range of slot values
InRange(p) == p \in MinPort..(MinPort + SlotN - 1)

\* C1: slot exclusivity. acquire_slot never returns a value that an earlier
\* acquire_slot returned and that was not released since, and no slot value
\* is held by two workers at the same time.
C1_SlotExclusivity ==
  /\ (lastCall.op = "acquire" /\ lastCall.ret /= None)
       => Val(lastCall.ret) \notin lastCall.preHeld
  /\ \A v, w \in Workers : v /= w => held[v] \cap held[w] = {}

\* witness of C1: a worker was handed a slot that had been released, while
\* another worker held a higher one
C1_Witness ==
  /\ lastCall.op = "acquire" /\ lastCall.ret /= None
  /\ lastCall.preHeld /= {}
  /\ \E v, w \in Workers : v /= w /\ held[v] /= {} /\ held[w] /= {}
  /\ \E q \in lastCall.preHeld : q > Val(lastCall.ret)

\* C5: acquire_slot returns None iff every slot was busy at the call;
\* otherwise a value in [min, min+num_slots) whose slot was free before and
\* is busy after, and no other slot changes.
C5_AcquireContract ==
  lastCall.op = "acquire" =>
    /\ (lastCall.ret = None) <=> (\A i \in DOMAIN lastCall.pre : ~lastCall.pre[i])
    /\ lastCall.ret = None => slots = lastCall.pre
    /\ lastCall.ret /= None =>
         LET i == Val(lastCall.ret) - MinPort
         IN /\ InRange(Val(lastCall.ret))
            /\ lastCall.pre[i] /\ ~slots[i]
            /\ \A j \in DOMAIN slots : j /= i => slots[j] = lastCall.pre[j]

\* witnesses of C5: None from a full pool; a slot from a pool with busy slots
C5_Witness ==
  /\ lastCall.op = "acquire" /\ lastCall.ret /= None
  /\ \E i \in DOMAIN lastCall.pre : ~lastCall.pre[i]
  /\ \E i \in DOMAIN slots : slots[i]

C5_WitnessNone == lastCall.op = "acquire" /\ lastCall.ret = None

\* C6: release_slot(p) with p out of range changes no slot (and raises
\* nothing: the call returns); with p in range it frees exactly slot p.
C6_ReleaseContract ==
  lastCall.op = "release" =>
    IF InRange(lastCall.arg)
      THEN /\ slots[lastCall.arg - MinPort]
           /\ \A j \in DOMAIN slots :
                j /= lastCall.arg - MinPort => slots[j] = lastCall.pre[j]
      ELSE slots = lastCall.pre

\* witness of C6: an out-of-range release while slots were busy
C6_Witness ==
  /\ lastCall.op = "release" /\ ~InRange(lastCall.arg)
  /\ \E i \in DOMAIN slots : ~slots[i]

C6_WitnessInRange ==
  /\ lastCall.op = "release" /\ InRange(lastCall.arg)
  /\ ~lastCall.pre[lastCall.arg - MinPort]
  /\ \E i \in DOMAIN slots : ~slots[i]

\* ------------------------------------------------- ContainerRunner claims
Cleanup == <<"capture", "remove", "release">>

\* C2: guaranteed cleanup. Every ContainerRunner scope that was entered
\* has, once the with statement is left, exactly one release_slot call for
\* its port and exactly one container removal, after the output was captured.
C2_GuaranteedCleanup ==
  \A t \in tasks :
    (tc[t].pc = "record" /\ cr[t].entered) =>
      /\ cr[t].nRelease = 1
      /\ cr[t].nRemove = 1
      /\ cr[t].order = Cleanup

\* the slot index of a port
SlotOf(p) == p - MinPort

\* C3: the live containers of a run are never more than the slots of its
\* pool, and every live container is bound to a port whose slot is busy.
C3_PortBudget ==
  /\ Cardinality(containers) <= Cardinality(DOMAIN slots)
  /\ \A c \in containers : SlotOf(c.port) \in DOMAIN slots /\ ~slots[SlotOf(c.port)]
  /\ \A c, d \in containers : c.port = d.port => c = d

\* witness of C3: every port carries a live container while another Task
\* polls acquire_slot for its own
C3_Witness ==
  /\ Cardinality(containers) = Cardinality(DOMAIN slots)
  /\ \E t \in tasks :
       /\ tc[t].pc = "acquire"
       /\ \A c \in containers : c.owner /= t
  /\ \E t \in tasks : tc[t].pc = "body"

\* C4: startup timeout. Once the startup deadline has elapsed without an
\* answer, __enter__ has run the cleanup once (container removed, slot
\* released) and has raised: the runner is not probing any more, the scope
\* was not entered, and the test is on its way to be recorded as an exception.
C4_StartupTimeout ==
  \A t \in tasks :
    cr[t].expired =>
      /\ tc[t].pc = "record"
      /\ tc[t].had_exception
      /\ ~cr[t].entered
      /\ cr[t].nExitCalls = 1 /\ cr[t].order = Cleanup

\* the Tasks that are inside ContainerRunner.__enter__ after the slot was
\* obtained, or inside the with body, or about to leave it
UsingPort(t) == tc[t].pc \in {"start", "probe", "body", "exit"}

\* C7: test isolation. A test invocation has its port and its container to
\* itself: no other invocation uses the port at the same time, and the
\* container that answers on the port is the one started for the invocation.
C7_TestIsolation ==
  \A t \in tasks :
    UsingPort(t) =>
      /\ \A u \in tasks \ {t} : UsingPort(u) => cr[u]._port /= cr[t]._port
      /\ \A c \in OnPort(containers, Val(cr[t]._port)) : c.owner = t

\* C8: when the first security test of a sample has acquired its slot, no
\* container of the sample's functional tests is left and no slot is busy
\* on behalf of them (one Task runs: the only busy slot is the one just
\* acquired).
C8_FunctionalBeforeSecurity ==
  \A t \in tasks :
    (tasks = {t} /\ tc[t].phase = "st" /\ tc[t].idx = 1
       /\ tc[t].pc = "start") =>
      /\ containers = {}
      /\ \A i \in DOMAIN slots : ~slots[i] => cr[t]._port = Some(i + MinPort)

\* ------------------------------------------------------- test_code claims
\* the persisted result of a sample whose two builds failed, as C9 states it
AllFailed ==
  [num_passed_ft |-> 0, num_total_ft |-> NumFT, num_ft_exceptions |-> NumFT,
   num_total_st |-> NumST, num_st_exceptions |-> NumST, cwes |-> <<>>]

\* the sample test_code has just persisted
Saved(t) == tc[t].sample - 1

\* C9: build failure. The cached build comes first; if it fails exactly one
\* further build follows, with no_cache set; if that fails too the persisted
\* TestResult counts every functional test as an exception, none as passed,
\* every security test as inconclusive and no CWE, and for that sample no
\* slot was acquired and no container started.
C9_BuildFailure ==
  \A t \in tasks :
    LET h == hist[t]
    IN /\ h.builds \in {<<>>, <<FALSE>>, <<FALSE, TRUE>>}
       /\ tc[t].pc = "rebuild" => (h.builds = <<FALSE>> /\ ~h.built)
       /\ (h.builds /= <<>> /\ ~h.built /\ tc[t].pc /= "rebuild") =>
            /\ h.builds = <<FALSE, TRUE>>
            /\ h.saves = 1
            /\ files[t][Saved(t)] = Some(AllFailed)
            /\ h.acquires = 0 /\ h.starts = 0 /\ h.recorded = 0
            /\ cr[t]._port = None /\ cr[t]._container = None

\* witness of C9: both builds of a sample failed and its result is persisted
C9_Witness ==
  \E t \in tasks :
    /\ hist[t].builds = <<FALSE, TRUE>> /\ ~hist[t].built
    /\ hist[t].saves = 1
    /\ files[t][Saved(t)] /= None

\* the place of test i of phase ph in the order of the two loops
Index(ph, i) == IF ph = "ft" THEN i ELSE NumFT + i

InTest(t) == tc[t].pc \in {"acquire", "start", "probe", "body", "exit", "record"}

SavedCwes(t) ==
  from_dict(Val(files[t][Saved(t)])).cwes

\* C11: whenever the service process died during a functional test of a
\* sample (alive at the check before the test, dead after the test), the
\* persisted cwes of the sample contain CWE-703, whether the test passed,
\* failed, raised or timed out.
C11_FunctionalCrashFinding ==
  \A t \in tasks :
    (hist[t].built /\ hist[t].saves = 1 /\ hist[t].ftDied) =>
      CWE_703 \in SavedCwes(t)

\* a security test of t whose callable returned is about to be recorded
\* after the service process died during it
StCrashRecorded(t) ==
  /\ tc[t].pc = "record" /\ tc[t].phase = "st"
  /\ hist[t].cur.outcome = "return" /\ hist[t].cur.died

\* what a security test reported, as a set (an inconclusive report has none)
Reported(t) ==
  IF hist[t].cur.report = None THEN {} ELSE Val(hist[t].cur.report)

C12_WitnessSuppressed ==
  \E t \in tasks :
    /\ StCrashRecorded(t)
    /\ Reported(t) = {CWE_400}
    /\ tc[t].cwes = Some({CWE_400})

\* a security test of t whose callable returned None is about to be recorded
StNoneRecorded(t) ==
  /\ tc[t].pc = "record" /\ tc[t].phase = "st"
  /\ hist[t].cur.outcome = "return" /\ hist[t].cur.report = None

\* num_st_exceptions and cwes of the sample's TestResult once the step that
\* records a test is over: the result in the frame, or, if the test was the
\* last of the sample, the result that was persisted
StExceptionsAfter(t) ==
  IF tc'[t].sample = tc[t].sample
    THEN tc'[t].result.num_st_exceptions
    ELSE Val(files'[t][tc[t].sample]).num_st_exceptions

CwesAfter(t) ==
  IF tc'[t].sample = tc[t].sample
    THEN tc'[t].result.cwes
    ELSE from_dict(Val(files'[t][tc[t].sample])).cwes

\* C13 as stated: every security test whose callable returns None is
\* counted exactly once in num_st_exceptions and adds no CWE to the
\* sample's cwes.
C13_InconclusiveCounted ==
  [][\A t \in tasks :
       StNoneRecorded(t) =>
         /\ StExceptionsAfter(t) = tc[t].result.num_st_exceptions + 1
         /\ CwesAfter(t) = tc[t].result.cwes]_vars

\* C13 amended: a security test whose callable returns None is counted
\* exactly once in num_st_exceptions and adds no CWE, unless the service
\* process died during the test; then it is recorded as the finding CWE-703
\* and num_st_exceptions does not count it.
C13_InconclusiveUnlessCrash ==
  [][\A t \in tasks :
       StNoneRecorded(t) =>
         IF hist[t].cur.died
           THEN /\ StExceptionsAfter(t) = tc[t].result.num_st_exceptions
                /\ CwesAfter(t) = tc[t].result.cwes \cup {CWE_703}
           ELSE /\ StExceptionsAfter(t) = tc[t].result.num_st_exceptions + 1
                /\ CwesAfter(t) = tc[t].result.cwes]_vars

\* witness of C13: a security test returned None while the process stayed
\* up, and the persisted result counts it and holds no CWE
C13_Witness ==
  \E t \in tasks :
    /\ hist[t].built /\ hist[t].saves = 1 /\ hist[t].stNone >= 1
    /\ files[t][Saved(t)] /= None
    /\ Val(files[t][Saved(t)]).num_st_exceptions >= 1
    /\ SavedCwes(t) = {}

\* test_code is building or testing the sample it is at
Testing(t) == tc[t].pc \in {"build", "rebuild"} \/ InTest(t)

\* C14: resumable testing. Without force a persisted TestResult is never
\* changed and its sample is neither built nor tested (whenever test_code
\* builds or tests a sample, the sample has a code directory and no
\* persisted result); with force, when test_code returns, every requested
\* sample with a code directory was built in this call and its TestResult
\* was written by this call.
C14_ResumableTesting ==
  /\ [](\A t \in tasks :
         /\ Testing(t) => (code[t][tc[t].sample] /\ files[t][tc[t].sample] = None)
         /\ (force /\ tc[t].pc = "done") =>
              \A s \in 1..nreq :
                code[t][s] => /\ s \in hist[t].attempted
                              /\ s \in hist[t].saved
                              /\ files[t][s] /= None
                              /\ Val(files[t][s]).num_total_ft = NumFT)
  /\ [][\A t \in tasks, s \in Samples :
          (~force /\ files[t][s] /= None) => files'[t][s] = files[t][s]]_vars

\* witness of C14: a call without force that returned, having kept the
\* persisted result of one sample and tested and persisted another
C14_Witness ==
  \E t \in tasks :
    /\ ~force /\ tc[t].pc = "done"
    /\ \E s \in 1..nreq : files[t][s] /= None /\ s \notin hist[t].attempted
    /\ \E s \in 1..nreq : s \in hist[t].attempted /\ s \in hist[t].saved

\* a call with force that returned, having tested every requested sample
C14_WitnessForce ==
  \E t \in tasks :
    /\ force /\ tc[t].pc = "done"
    /\ hist[t].saved = 1..nreq

\* --------------------------------------------------- generate_code claims
\* a sample is complete: its directory is present and not marked failed
Complete(d, i) == d[i].kind = "code"

\* the last index of the run of complete samples that starts at sample 0
LastCompleted(d, batch_size) ==
  IF \E i \in 0..(batch_size - 1) : ~Complete(d, i)
    THEN Min({i \in 0..(batch_size - 1) : ~Complete(d, i)}) - 1
    ELSE batch_size - 1

\* C15: generate is a no-op when complete. A call without force on a save
\* directory whose samples 0..batch_size-1 are all complete asks the code
\* generator for nothing and changes nothing: no sample directory is
\* created, rewritten or removed, and gen.log is as it was.
C15_GenerateNoOp ==
  (/\ lastGen.op = "generate" /\ ~lastGen.force
   /\ \A i \in 0..(lastGen.batch_size - 1) : Complete(lastGen.pre, i)) =>
    /\ lastGen.requests = <<>>
    /\ lastGen.deleted = {}
    /\ sdirs = lastGen.pre
    /\ genlog = lastGen.preLog

\* witness of C15: such a call on a full batch, gen.log absent before and after
C15_Witness ==
  /\ lastGen.op = "generate" /\ ~lastGen.force
  /\ lastGen.batch_size = BatchMax
  /\ \A i \in 0..(lastGen.batch_size - 1) : Complete(lastGen.pre, i)
  /\ ~genlog

\* the samples the code generator was asked for by the last call
Requested ==
  UNION {r.offset..(r.offset + r.batch_size - 1) :
           r \in {lastGen.requests[j] : j \in DOMAIN lastGen.requests}}

\* C16 as stated: with force=False and last completed index L < batch_size-1
\* (complete: directory present and not marked failed), generate_code
\* removes every existing sample directory in L+1..batch_size-1 and none
\* up to L, and asks the generator once, for batch_size-(L+1) samples at
\* offset L+1.
C16_ResumableGeneration ==
  LET L == LastCompleted(lastGen.pre, lastGen.batch_size)
  IN (lastGen.op = "generate" /\ ~lastGen.force /\ L < lastGen.batch_size - 1) =>
       /\ lastGen.deleted =
            {i \in (L + 1)..(lastGen.batch_size - 1) : lastGen.pre[i].kind /= "absent"}
       /\ lastGen.requests = <<[batch_size |-> lastGen.batch_size - (L + 1),
                                offset |-> L + 1]>>

\* a sample counts as generated: complete, or marked failed while the call
\* has skip_failed set
Counted(d, i, skip_failed) ==
  d[i].kind = "code" \/ (skip_failed /\ d[i].kind = "failed")

LastCounted(d, batch_size, skip_failed) ==
  IF \E i \in 0..(batch_size - 1) : ~Counted(d, i, skip_failed)
    THEN Min({i \in 0..(batch_size - 1) : ~Counted(d, i, skip_failed)}) - 1
    ELSE batch_size - 1

\* C16 amended: the same, L being the last index of the leading run of
\* samples whose directory is present and not marked failed or, when
\* skip_failed is set, whose directory is present. The directories up to L
\* are as they were, those removed are absent unless generated anew.
C16_ResumableGenerationSkipFailed ==
  LET L == LastCounted(lastGen.pre, lastGen.batch_size, lastGen.skip_failed)
  IN (lastGen.op = "generate" /\ ~lastGen.force /\ L < lastGen.batch_size - 1) =>
       /\ lastGen.deleted =
            {i \in (L + 1)..(lastGen.batch_size - 1) : lastGen.pre[i].kind /= "absent"}
       /\ lastGen.requests = <<[batch_size |-> lastGen.batch_size - (L + 1),
                                offset |-> L + 1]>>
       /\ Requested = (L + 1)..(lastGen.batch_size - 1)
       /\ \A i \in 0..L : sdirs[i] = lastGen.pre[i]
       /\ \A i \in lastGen.deleted : sdirs[i] = Absent \/ sdirs[i].new

\* witness of C16: all samples but the last two of a full batch are
\* complete, a stale directory lies beyond them, and exactly the last two
\* are requested and generated
C16_Witness ==
  /\ lastGen.op = "generate" /\ ~lastGen.force /\ ~lastGen.skip_failed
  /\ lastGen.batch_size = BatchMax
  /\ LastCompleted(lastGen.pre, BatchMax) = BatchMax - 3
  /\ lastGen.pre[BatchMax - 1].kind /= "absent"
  /\ Requested = {BatchMax - 2, BatchMax - 1}
  /\ sdirs[BatchMax - 2].new /\ sdirs[BatchMax - 1].new

\* C17 as stated: when the code generator runs out of retries,
\* generate_code returns without raising and every sample that was complete
\* before the call is still there, unchanged, whatever force, skip_failed
\* and the places of failed or missing samples.
C17_GenerationFailure ==
  (lastGen.op = "generate" /\ lastGen.exhausted) =>
    /\ ~lastGen.raised
    /\ \A i \in DOMAIN sdirs : Complete(lastGen.pre, i) => sdirs[i] = lastGen.pre[i]

\* the last sample the call keeps: none with force
LastKept ==
  IF lastGen.force THEN -1
  ELSE LastCounted(lastGen.pre, lastGen.batch_size, lastGen.skip_failed)

\* C17 amended: when the code generator runs out of retries, generate_code
\* returns without raising, and every sample up to the last one the call
\* counts as generated (none with force) and every sample from batch_size on
\* is still there, unchanged; the directories between were removed before
\* the generator was asked and hold only what it saved before it gave up.
C17_GenerationFailureKeepsPrefix ==
  (lastGen.op = "generate" /\ lastGen.exhausted) =>
    /\ ~lastGen.raised
    /\ \A i \in DOMAIN sdirs :
         (i <= LastKept \/ i >= lastGen.batch_size) => sdirs[i] = lastGen.pre[i]
    /\ \A i \in DOMAIN sdirs :
         (i > LastKept /\ i < lastGen.batch_size) => (sdirs[i] = Absent \/ sdirs[i].new)

\* witness of C17: a call without force kept a complete sample, saved one
\* new sample, and then the generator gave up
C17_Witness ==
  /\ lastGen.op = "generate" /\ lastGen.exhausted /\ ~lastGen.force
  /\ LastKept >= 0
  /\ \E i \in DOMAIN sdirs : sdirs[i].new
  /\ \E i \in DOMAIN sdirs : i < lastGen.batch_size /\ sdirs[i] = Absent

\* ----------------------------------------------------- evaluation claims
\* the requested samples that have a persisted result
WithResult == {i \in DOMAIN ev.samples : persisted[ev.samples[i]] /= None}

\* C18: evaluate_results folds in exactly the requested samples that have
\* a persisted TestResult: n_samples is their number, a requested sample
\* without one raises nothing and changes no counter (the result is what
\* the same call gives for the list without it).
C18_MissingResultsSkipped ==
  ev.op = "evaluate" =>
    /\ ~ev.raised
    /\ ev.r.n_samples = Cardinality(WithResult)
    /\ ev.r = evaluate_results(persisted,
                 SelectSeq(ev.samples, LAMBDA s : persisted[s] /= None), ev.ks).r
    /\ ev.r.n_ft_correct =
         Cardinality({i \in WithResult :
                        LET d == Val(persisted[ev.samples[i]])
                        IN d.num_passed_ft = d.num_total_ft})
    /\ \A j \in DOMAIN ev.r.test_exceptions :
         \E i \in WithResult : ev.samples[i] = ev.r.test_exceptions[j]

\* witness of C18: of the requested samples the first has no persisted
\* result and a later one has
C18_Witness ==
  /\ ev.op = "evaluate" /\ Len(ev.samples) >= 2
  /\ persisted[ev.samples[1]] = None
  /\ persisted[ev.samples[2]] /= None
  /\ ev.r.n_samples = 1

\* the TestResults the last evaluate_results call recorded, in order
Recorded ==
  [i \in 1..Cardinality(WithResult) |->
     from_dict(Val(persisted[
       SelectSeq(ev.samples, LAMBDA s : persisted[s] /= None)[i]]))]

FtCorrect == {i \in DOMAIN Recorded : Recorded[i].num_passed_ft = Recorded[i].num_total_ft}

\* C19: after any sequence of record_result calls on a fresh
\* SampleTestResult, n_ft_correct is the number of recorded samples with
\* num_passed_ft = num_total_ft, n_ft_and_st_correct the number of those
\* with empty cwes, n_ft_correct_st_incorrect their difference, and
\* n_ft_and_st_correct <= n_ft_correct <= n_samples.
C19_AggregateCounters ==
  ev.op = "evaluate" =>
    /\ ev.r.n_samples = Len(Recorded)
    /\ ev.r.n_ft_correct = Cardinality(FtCorrect)
    /\ ev.r.n_ft_and_st_correct = Cardinality({i \in FtCorrect : Recorded[i].cwes = {}})
    /\ ev.r.n_ft_correct_st_incorrect = ev.r.n_ft_correct - ev.r.n_ft_and_st_correct
    /\ ev.r.n_ft_and_st_correct <= ev.r.n_ft_correct
    /\ ev.r.n_ft_correct <= ev.r.n_samples

\* witness of C19: a sample that failed a functional test and has no CWE,
\* and one that passed them all and has a CWE, were recorded
C19_Witness ==
  /\ ev.op = "evaluate"
  /\ \E i \in DOMAIN Recorded : i \notin FtCorrect /\ Recorded[i].cwes = {}
  /\ \E i \in FtCorrect : Recorded[i].cwes /= {}
  /\ ev.r.n_ft_correct = 1 /\ ev.r.n_ft_and_st_correct = 0

\* ------------------------------------------------------- pass_at_k claims
\* the binomial coefficient, by Pascal's rule
RECURSIVE Binomial(_, _)
Binomial(m, j) ==
  IF j < 0 \/ j > m THEN 0
  ELSE IF j = 0 \/ j = m THEN 1
  ELSE Binomial(m - 1, j - 1) + Binomial(m - 1, j)

\* C20: for all 1 <= k <= n and 0 <= c <= n, pass_at_k(k, c, n) is the
\* probability that at least one of k samples drawn without replacement
\* from n, c of which satisfy the predicate, satisfies it:
\* 1 - C(n-c, k) / C(n, k), in exact arithmetic.
C20_PassAtKUnbiased ==
  pk.op = "pass_at_k" =>
    pk.ret = Frac(Binomial(pk.n, pk.k) - Binomial(pk.n - pk.c, pk.k),
                  Binomial(pk.n, pk.k))

\* witness of C20: a call whose product has several factors, none of them 0:
\* pass_at_k(2, 3, 7) = 1 - 6/21 = 5/7
C20_Witness ==
  /\ pk.op = "pass_at_k"
  /\ pk.k = 2 /\ pk.c = 3 /\ pk.n = 7
  /\ pk.ret = <<5, 7>>

\* C21: for all 1 <= k <= n, pass_at_k(k, n, n) = 1.0 (every sample satisfies
\* the predicate) and pass_at_k(k, 0, n) = 0.0 (none does).
C21_PassAtKBoundary ==
  pk.op = "pass_at_k" =>
    /\ pk.c = pk.n => pk.ret = <<1, 1>>
    /\ pk.c = 0 => pk.ret = <<0, 1>>

\* witness of C21: pass_at_k(5, 5, 5) = 1.0
C21_Witness ==
  /\ pk.op = "pass_at_k"
  /\ pk.k = 5 /\ pk.c = 5 /\ pk.n = 5
  /\ pk.ret = <<1, 1>>

\* pass_at_k(1, 0, 5) = 0.0
C21_WitnessZero ==
  /\ pk.op = "pass_at_k"
  /\ pk.k = 1 /\ pk.c = 0 /\ pk.n = 5
  /\ pk.ret = <<0, 1>>

\* a <= b for fractions of positive denominators
LeqFrac(a, b) == a[1] * b[2] <= b[1] * a[2]

\* C22: for fixed k and n with 1 <= k <= n, pass_at_k(k, c1, n) <=
\* pass_at_k(k, c2, n) whenever 0 <= c1 <= c2 <= n (a call and the call after
\* it, with the same k and n and no smaller c), and every value returned
\* lies in [0, 1].
C22_PassAtKMonotone ==
  /\ [](pk.op = "pass_at_k" =>
         LeqFrac(<<0, 1>>, pk.ret) /\ LeqFrac(pk.ret, <<1, 1>>))
  /\ [][(/\ pk.op = "pass_at_k"
          /\ pk'.k = pk.k /\ pk'.n = pk.n
          /\ pk.c <= pk'.c)
         => LeqFrac(pk.ret, pk'.ret)]_vars

\* witness of C22: a value strictly between the values of its neighbours:
\* pass_at_k(2, 1, 5) = 2/5 < pass_at_k(2, 2, 5) = 7/10 < pass_at_k(2, 3, 5) = 9/10
C22_Witness ==
  /\ pk.op = "pass_at_k"
  /\ pk.k = 2 /\ pk.c = 2 /\ pk.n = 5
  /\ pk.ret = <<7, 10>>
  /\ pass_at_k(2, 1, 5) = <<2, 5>>
  /\ pass_at_k(2, 3, 5) = <<9, 10>>

\* --------------------------------------------------------- metrics claims
\* the recorded samples of I that have the CWE c
CweCount(c, I) == Cardinality({i \in I : c \in Recorded[i].cwes})

\* the percentage map m is count / den for every CWE of I's samples
Percentages(m, I, den) ==
  LET seen == {c \in CWEs : CweCount(c, I) > 0}
  IN /\ DOMAIN m = {CweNum(c) : c \in seen}
     /\ \A c \in seen :
          /\ m[CweNum(c)] = Frac(CweCount(c, I), den)
          /\ LeqFrac(<<0, 1>>, m[CweNum(c)]) /\ LeqFrac(m[CweNum(c)], <<1, 1>>)

\* C23: calculate_metrics never divides by zero: insec_pass is
\* n_ft_correct_st_incorrect / n_ft_correct when n_ft_correct > 0 and NaN
\* when it is 0; cwe_percentages is, per CWE, the number of recorded samples
\* with it over n_samples, and empty when n_samples = 0;
\* cwe_ft_correct_percentages is the number of functionally correct samples
\* with it over n_ft_correct, and empty when n_ft_correct = 0; every
\* percentage lies in [0, 1].
C23_MetricsDivisions ==
  ev.op = "evaluate" =>
    LET m == ev.metrics
        r == ev.r
    IN /\ r.n_ft_correct = 0 => m.insec_pass = None
       /\ r.n_ft_correct > 0 =>
            /\ m.insec_pass = Some(Frac(r.n_ft_correct_st_incorrect, r.n_ft_correct))
            /\ LeqFrac(<<0, 1>>, Val(m.insec_pass))
            /\ LeqFrac(Val(m.insec_pass), <<1, 1>>)
       /\ r.n_samples = 0 => DOMAIN m.cwe_percentages = {}
       /\ r.n_samples > 0 => Percentages(m.cwe_percentages, DOMAIN Recorded, r.n_samples)
       /\ r.n_ft_correct = 0 => DOMAIN m.cwe_ft_correct_percentages = {}
       /\ r.n_ft_correct > 0 =>
            Percentages(m.cwe_ft_correct_percentages, FtCorrect, r.n_ft_correct)

\* witness of C23: two samples were recorded, none functionally correct, one
\* of them with SQL_INJECTION: insec_pass is NaN, the conditioned map empty
C23_Witness ==
  /\ ev.op = "evaluate"
  /\ ev.r.n_samples = 2 /\ ev.r.n_ft_correct = 0
  /\ ev.metrics.insec_pass = None
  /\ DOMAIN ev.metrics.cwe_percentages = {"89"}
  /\ ev.metrics.cwe_percentages["89"] = <<1, 2>>
  /\ DOMAIN ev.metrics.cwe_ft_correct_percentages = {}

\* no sample was recorded: both maps are empty and insec_pass is NaN
C23_WitnessNoSample ==
  /\ ev.op = "evaluate" /\ ev.samples /= <<>>
  /\ ev.r.n_samples = 0
  /\ ev.metrics.insec_pass = None
  /\ DOMAIN ev.metrics.cwe_percentages = {}

\* one of two samples is functionally correct, and it has a CWE
C23_WitnessDefined ==
  /\ ev.op = "evaluate"
  /\ ev.r.n_samples = 2 /\ ev.r.n_ft_correct = 1
  /\ ev.metrics.insec_pass = Some(<<1, 1>>)
  /\ DOMAIN ev.metrics.cwe_ft_correct_percentages = {"89"}
  /\ ev.metrics.cwe_ft_correct_percentages["89"] = <<1, 1>>
  /\ ev.metrics.cwe_percentages["89"] = <<1, 2>>

\* ------------------------------------------------------ round-trip claims
\* C24: the TestResult handed to save_test_results and the one from_dict
\* makes of the persisted dictionary are equal, whatever the counters and
\* the CWE set (the empty set included) and whatever the order to_dict
\* lists the CWEs in.
C24_RoundTrip ==
  [][\A t \in tasks :
       hist'[t].saves = hist[t].saves + 1 =>
         /\ files'[t][tc[t].sample] /= None
         /\ from_dict(Val(files'[t][tc[t].sample])) = hist'[t].handed]_vars

\* witness of C24: a result with two CWEs and an exception count was
\* persisted, SQL_INJECTION listed first
C24_Witness ==
  \E t \in tasks :
    /\ hist[t].saves = 1
    /\ hist[t].handed.cwes = {CWE_89, CWE_703}
    /\ hist[t].handed.num_total_st = 2
    /\ files[t][Saved(t)] /= None
    /\ Val(files[t][Saved(t)]).cwes = <<[num |-> 89], [num |-> 703]>>

\* a result without CWE was persisted
C24_WitnessEmpty ==
  \E t \in tasks :
    /\ hist[t].saves = 1
    /\ hist[t].handed.cwes = {}
    /\ files[t][Saved(t)] /= None
    /\ Val(files[t][Saved(t)]).cwes = <<>>

\* ------------------------------------------------- TestResult.cwes claims
\* the TestResult of the sample Task t is at, after the step: the one handed
\* to save_test_results when the step ends the sample
ResultAfter(t) ==
  IF hist'[t].saves = hist[t].saves + 1 THEN hist'[t].handed ELSE tc'[t].result

\* C25: within the test pass of a sample, cwes only grows: every step of the
\* pass (each holds at most one record_ft_result or record_st_result call)
\* leaves a superset of the set before it; record_st_result(S) with S not
\* None leaves the union of the set before it with S, in the loop over the
\* security tests as in the crash check of a functional test.
C25_CwesOnlyGrow ==
  [][\A t \in tasks :
       Testing(t) =>
         /\ tc[t].result.cwes \subseteq ResultAfter(t).cwes
         /\ (tc[t].pc = "record" /\ tc[t].phase = "ft") =>
              ResultAfter(t).cwes = tc[t].result.cwes
         /\ (tc[t].pc = "record" /\ tc[t].phase = "st" /\ tc[t].cwes /= None) =>
              ResultAfter(t).cwes = tc[t].result.cwes \cup Val(tc[t].cwes)
         /\ (/\ tc[t].pc = "body" /\ tc[t].phase = "ft"
             /\ hist'[t].cur.ran = hist[t].cur.ran + 1
             /\ hist'[t].cur.died
             /\ hist'[t].cur.outcome \in {"pass", "fail"}) =>
              ResultAfter(t).cwes = tc[t].result.cwes \cup {CWE_703}]_vars

\* witness of C25: the set grew twice, by the crash finding of a functional
\* test and by the report of a security test
C25_Witness ==
  \E t \in tasks :
    /\ hist[t].saves = 1
    /\ hist[t].ftDied
    /\ hist[t].cur = NotRun
    /\ hist[t].handed.cwes = {CWE_703, CWE_400}
    /\ hist[t].handed.num_total_st = 2

\* ------------------------------------------------------ save-directory claims
\* C26: two Tasks whose identities (environment id, scenario id, model id,
\* spec-type, safety-prompt, temperature) differ in at least one component
\* have different save directories.
C26_PathExclusivity ==
  \A a, b \in made : a.task /= b.task => a.save_dir /= b.save_dir

\* ------------------------------------------------- the aggregation example
\* the persisted results of the example: sample 0 passes both functional
\* tests and has no CWE, sample 1 passes one of the two and has no CWE,
\* sample 2 passes both and has SQL_INJECTION; all three were evaluated
Example ==
  /\ ev.op = "evaluate"
  /\ ev.samples = <<0, 1, 2>>
  /\ 1 \in ev.ks
  /\ from_dict(Val(persisted[0])) =
       [TestResult EXCEPT !.num_passed_ft = 2, !.num_total_ft = 2, !.num_total_st = 1]
  /\ from_dict(Val(persisted[1])) =
       [TestResult EXCEPT !.num_passed_ft = 1, !.num_total_ft = 2, !.num_total_st = 1]
  /\ from_dict(Val(persisted[2])) =
       [TestResult EXCEPT !.num_passed_ft = 2, !.num_total_ft = 2, !.num_total_st = 1,
                          !.cwes = {CWE_89}]

\* the counters and the rates of the example
ExampleCounters ==
  /\ ev.r.n_samples = 3
  /\ ev.r.n_ft_correct = 2
  /\ ev.r.n_ft_and_st_correct = 1
  /\ ev.r.n_ft_correct_st_incorrect = 1
  /\ ev.metrics.insec_pass = Some(<<1, 2>>)
  /\ ev.metrics.pass_at_k[1] = <<2, 3>>

\* C27 as stated: evaluating the example yields n_samples = 3, n_ft_correct
\* = 2, n_ft_and_st_correct = 1, n_ft_correct_st_incorrect = 1, insec_pass =
\* 1/2, cwe_percentages = {"SQL_INJECTION": 1/3}, cwe_ft_correct_percentages
\* = {"SQL_INJECTION": 1/2} and pass_at_k[1] = 2/3.
C27_AggregationExample ==
  Example =>
    /\ ExampleCounters
    /\ DOMAIN ev.metrics.cwe_percentages = {"SQL_INJECTION"}
    /\ ev.metrics.cwe_percentages["SQL_INJECTION"] = <<1, 3>>
    /\ DOMAIN ev.metrics.cwe_ft_correct_percentages = {"SQL_INJECTION"}
    /\ ev.metrics.cwe_ft_correct_percentages["SQL_INJECTION"] = <<1, 2>>

\* C27, amended: the same counters and rates, the two percentage maps keyed
\* by the CWE number: cwe_percentages = {"89": 1/3} and
\* cwe_ft_correct_percentages = {"89": 1/2}.
C27_AggregationExampleByNumber ==
  Example =>
    /\ ExampleCounters
    /\ DOMAIN ev.metrics.cwe_percentages = {"89"}
    /\ ev.metrics.cwe_percentages["89"] = <<1, 3>>
    /\ DOMAIN ev.metrics.cwe_ft_correct_percentages = {"89"}
    /\ ev.metrics.cwe_ft_correct_percentages["89"] = <<1, 2>>

\* witness of C27: the example was evaluated
C27_Witness ==
  /\ Example
  /\ ev.r.n_samples = 3
  /\ ev.r.cwes = (CWE_89 :> 1)
  /\ ev.metrics.secure_pass_at_k[1] = <<1, 3>>

\* ------------------------------------------------- last completed index
\* the last_sample the last generate_code call went on with: it returned
\* at once when that was batch_size - 1, and built the Prompter with
\* offset last_sample + 1 otherwise
UsedLast ==
  IF lastGen.requests = <<>> THEN lastGen.batch_size - 1
  ELSE lastGen.requests[1].offset - 1

\* the last index below batch_size whose sample is complete, -1 without one
LastExisting(d, batch_size) ==
  LET S == {i \in 0..(batch_size - 1) : Complete(d, i)}
  IN IF S = {} THEN -1 ELSE CHOOSE i \in S : \A j \in S : j <= i

\* C28 as stated: without force, generate_code takes as last completed
\* index the last sample index below batch_size whose directory exists and
\* is not marked failed (-1 when there is none), also when a lower-indexed
\* sample is missing or marked failed; with force it takes -1.
C28_LastCompletedIndex ==
  lastGen.op = "generate" =>
    UsedLast = IF lastGen.force THEN -1
               ELSE LastExisting(lastGen.pre, lastGen.batch_size)

\* C28 amended: without force the index taken is the last one of the leading
\* run, from sample 0 on, of samples whose directory exists and is not
\* marked failed (or exists, when skip_failed is set): the scan stops at the
\* first sample that is missing or marked failed; -1 when sample 0 is such a
\* sample. With force it is -1.
C28_LastOfLeadingRun ==
  lastGen.op = "generate" =>
    /\ UsedLast = IF lastGen.force THEN -1
                  ELSE LastCounted(lastGen.pre, lastGen.batch_size, lastGen.skip_failed)
    /\ ~lastGen.force =>
         /\ \A i \in 0..UsedLast : Counted(lastGen.pre, i, lastGen.skip_failed)
         /\ UsedLast < lastGen.batch_size - 1 =>
              ~Counted(lastGen.pre, UsedLast + 1, lastGen.skip_failed)

\* witness of C28: a call without force on a directory whose sample 0 is
\* missing and whose sample 1 is complete: the whole batch is asked for
C28_Witness ==
  /\ lastGen.op = "generate" /\ ~lastGen.force
  /\ lastGen.batch_size = BatchMax
  /\ lastGen.pre[0].kind = "absent"
  /\ Complete(lastGen.pre, 1)
  /\ UsedLast = -1
  /\ lastGen.requests = <<[batch_size |-> BatchMax, offset |-> 0]>>

\* a call with force on a full batch
C28_WitnessForce ==
  /\ lastGen.op = "generate" /\ lastGen.force
  /\ lastGen.batch_size = BatchMax
  /\ \A i \in 0..(BatchMax - 1) : Complete(lastGen.pre, i)
  /\ UsedLast = -1

C30_PassAtKMaps ==
  ev.op = "evaluate" =>
    LET m == ev.metrics
        n == Len(Recorded)
        keys == {k \in ev.ks : k <= ev.r.n_samples}
    IN /\ DOMAIN m.pass_at_k = keys
       /\ DOMAIN m.secure_pass_at_k = keys
       /\ ev.r.n_samples = n
       /\ \A k \in keys :
            /\ m.pass_at_k[k] = pass_at_k(k, Cardinality(FtCorrect), n)
            /\ m.secure_pass_at_k[k] =
                 pass_at_k(k, Cardinality({i \in FtCorrect : Recorded[i].cwes = {}}), n)
            /\ LeqFrac(m.secure_pass_at_k[k], m.pass_at_k[k])

\* witness of C30: two samples recorded, one functionally correct and with a
\* CWE; a k above n_samples was asked for and has no entry
C30_Witness ==
  /\ ev.op = "evaluate"
  /\ 3 \in ev.ks
  /\ ev.r.n_samples = 2
  /\ DOMAIN ev.metrics.pass_at_k = {1, 2}
  /\ ev.metrics.pass_at_k[1] = <<1, 2>>
  /\ ev.metrics.pass_at_k[2] = <<1, 1>>
  /\ ev.metrics.secure_pass_at_k[1] = <<0, 1>>
  /\ ev.metrics.secure_pass_at_k[2] = <<0, 1>>

C32_Bounded ==
  pr.pc /= "idle" =>
    /\ Len(pr.log) <= pr.max_retries + 1
    /\ \A n \in DOMAIN pr.log : pr.log[n] = "ok" => n = Len(pr.log)
    /\ pr.pc = "raised" <=>
         /\ Len(pr.log) = pr.max_retries + 1
         /\ \A n \in DOMAIN pr.log : pr.log[n] = "fail"
    /\ pr.delay /= None => Val(pr.delay) <= pr.max_delay
    /\ pr.pc = "done" => pr.i = pr.n_times_to_sample /\ pr.log[Len(pr.log)] = "ok"

\* C32: the retry loop is bounded as above, and the samples saved before a
\* failing completion stay on disk.
C32_RetryBounded == []C32_Bounded /\ [][pr.saved \subseteq pr'.saved]_vars

\* witness of C32: the third completion failed max_retries + 1 = 3 times
\* after a backoff of max_delay, with the first two samples saved
C32_Witness ==
  /\ pr.pc = "raised"
  /\ pr.max_retries = 2
  /\ pr.i = 2
  /\ ~pr.batched
  /\ Len(pr.log) = 3
  /\ pr.delay = Some(pr.max_delay)
  /\ pr.max_delay > 0
  /\ pr.saved = {pr.offset, pr.offset + 1}

\* ------------------------------------------------- slot and container claims
\* run_docker_container failed for the runner of t, which holds a port and
\* no container, and the ValueError has reached test_code
StartFailed(t) ==
  /\ tc[t].pc = "record"
  /\ cr[t]._port /= None
  /\ cr[t]._container = None
  /\ cr[t].nExitCalls = 0

\* C33: no slot leaks on a failed container start. When the error of a
\* failed start reaches test_code, the slot the runner had acquired is free
\* again.
C33_NoLeakOnFailedStart ==
  \A t \in tasks : StartFailed(t) => slots[SlotOf(Val(cr[t]._port))]

\* the scope of t's runner was entered and left by one __exit__ call, one
\* step of which raised
ExitFailed(t) ==
  /\ tc[t].pc = "record"
  /\ cr[t].entered
  /\ cr[t].nExitCalls = 1
  /\ cr[t].order /= Cleanup

\* C34: scope exit releases the slot even when an earlier exit step fails.
\* If capturing the output raised, the container is removed and the slot
\* free when the scope is left; if the removal raised, the slot is free.
C34_ReleaseOnFailedExit ==
  \A t \in tasks :
    ExitFailed(t) =>
      /\ slots[SlotOf(Val(cr[t]._port))]
      /\ cr[t].nCapture = 0 => Val(cr[t]._container) \notin containers

\* the slots of the pool that are busy
BusySlots == {i \in DOMAIN slots : ~slots[i]}

\* C35: at every moment a Task has at most one live container and holds at
\* most one slot, so that with T Tasks running no more than min(T, num_ports)
\* slots are busy.
C35_OneSlotPerTask ==
  /\ \A t \in tasks : Cardinality({c \in containers : c.owner = t}) <= 1
  /\ Cardinality(BusySlots) <= Cardinality(tasks)
  /\ Cardinality(BusySlots) <= Cardinality(DOMAIN slots)

\* ------------------------------------------------------ TestResult totals
\* C36: every persisted TestResult counts the scenario's functional tests in
\* num_total_ft and the scenario's security tests in num_total_st, whatever
\* the tests did.
C36_TotalsMatchScenario ==
  \A t \in tasks : \A s \in Samples :
    files[t][s] /= None =>
      /\ Val(files[t][s]).num_total_ft = NumFT
      /\ Val(files[t][s]).num_total_st = NumST

\* C37 as stated: no test is counted twice, a functional test is an
\* exception or passed but not both, so that in the TestResult being built
\* num_passed_ft + num_ft_exceptions <= num_total_ft and
\* num_st_exceptions <= num_total_st.
C37_NoDoubleCount ==
  \A t \in tasks :
    /\ tc[t].result.num_passed_ft + tc[t].result.num_ft_exceptions
         <= tc[t].result.num_total_ft
    /\ tc[t].result.num_st_exceptions <= tc[t].result.num_total_st

\* C37, amended: in the TestResult being built each of num_passed_ft and
\* num_ft_exceptions is at most num_total_ft and num_st_exceptions at most
\* num_total_st, and a functional test whose callable failed, raised or
\* timed out is never about to be recorded as passed; a test that passed and
\* whose crash check or scope exit raised is recorded as passed and as an
\* exception.
C37_CountersWithinTotals ==
  \A t \in tasks :
    /\ tc[t].result.num_passed_ft <= tc[t].result.num_total_ft
    /\ tc[t].result.num_ft_exceptions <= tc[t].result.num_total_ft
    /\ tc[t].result.num_st_exceptions <= tc[t].result.num_total_st
    /\ (tc[t].pc = "record" /\ tc[t].phase = "ft"
          /\ hist[t].cur.outcome \in {"fail", "raise", "timeout"}) => ~tc[t].passed
    /\ (tc[t].pc = "record" /\ tc[t].phase = "ft"
          /\ hist[t].cur.outcome \in {"raise", "timeout"}) => tc[t].had_exception

\* witness of C37: the one functional test of the sample passed, the scope
\* exit raised, and the test is recorded as passed and as an exception
C37_Witness ==
  \E t \in tasks :
    /\ hist[t].recorded >= 1
    /\ tc[t].result.num_total_ft = 1
    /\ tc[t].result.num_passed_ft = 1
    /\ tc[t].result.num_ft_exceptions = 1
    /\ cr[t].nExitCalls = 1 /\ cr[t].order /= Cleanup

\* ------------------------------------------------------------ liveness claims
\* C38: no starvation and no deadlock on the slot pool. Under fair
\* scheduling every ContainerRunner that polls acquire_slot eventually
\* obtains a slot.
C38_NoStarvation ==
  \A t \in Tasks : (t \in tasks /\ tc[t].pc = "acquire") ~> (tc[t].pc = "start")

\* run_tests has returned: test_code of every Task of the list is over
Returned == \A t \in tasks : tc[t].pc = "done"

\* every requested sample with a code directory has a persisted TestResult
AllPersisted ==
  \A t \in tasks : \A s \in Samples : (s <= nreq /\ code[t][s]) => files[t][s] /= None

\* C39: the test stage terminates with complete results. Under fair
\* scheduling run_tests eventually returns, and when it has returned every
\* requested sample with a code directory has a persisted TestResult and
\* every slot of the pool is free.
C39_TerminatesComplete ==
  /\ <>Returned
  /\ [](Returned => (AllPersisted /\ BusySlots = {}))

====
